---- MODULE Spec2Model ----
(***************************************************************************)
(* Rate limiter (apps/api/src/middleware/rateLimit.ts) and session /       *)
(* single-use token core (apps/api/src/middleware/auth.ts,                 *)
(* apps/api/src/routes/auth.ts) of talidichafiq/saas-ecommerce.            *)
(*                                                                         *)
(* SpecRL   : the rateLimit middleware for one storage key                 *)
(*            rl:<keyPrefix>:<ip>.  Distinct keys address distinct Durable *)
(*            Object instances (idFromName(key)) and distinct KV entries,  *)
(*            so they share no state.  Times are milliseconds.             *)
(* SpecAuth : the /auth handlers past their rate limiter, one action per   *)
(*            awaited database statement, with concurrent requests.  Times *)
(*            are seconds.                                                 *)
(* SpecSess : login, logout, an authenticated request and password reset   *)
(*            for two users who registered and verified their address      *)
(*            earlier, over a period shorter than every lifetime.          *)
(* SpecRoll : one of these users logging in and using the session while    *)
(*            time passes.  Times are seconds.                             *)
(* SpecMail : register, resend and forgot in deployments with and without  *)
(*            the mail provider's key.                                     *)
(* SpecTenant : requests that load the tenant context while plan and role  *)
(*            are changed (middleware/tenant.ts, injectTenantContext).     *)
(* SpecLogin : login for an account written by register, an account        *)
(*            written by the seed script and an unknown email, with        *)
(*            failing statements in createSession.                         *)
(* SpecPw   : hashPassword and verifyPassword over passwords, salts and    *)
(*            iteration counts.                                            *)
(* SpecPipe : the middleware chain of each route, as declared.             *)
(* SpecOrders : PATCH /dashboard/orders/:id/status (routes/orders.ts) and  *)
(*            updateOrderStatusSchema (packages/shared/src/schemas.ts).    *)
(* SpecGate : /auth/login and /auth/reset behind their rate limiter, the   *)
(*            Durable Object and the handlers in one machine.              *)
(* SpecHook : customer.subscription.created / updated events delivered to  *)
(*            POST /stripe/webhook (routes/webhook.ts, syncSubscription).  *)
(***************************************************************************)
EXTENDS Integers, Sequences, FiniteSets, TLC

VARIABLES
    clock,      \* Date.now(), one clock for all nodes
    opts,       \* RateLimitOptions of the scope under analysis
    doBound,    \* env.RATE_LIMITER_DO is bound
    kvBound,    \* env.KV_RATE_LIMIT is bound
    counts,     \* RateLimiterDO.counts : Map<key, {count, windowStart}>
    kv,         \* KV namespace: key -> parsed JSON array of timestamps
    req,        \* in-flight rateLimit calls: position and locals
    last,       \* the decision the middleware obtained in the step just taken
    doAdm,      \* history: requests the Durable Object admitted in its current window
    allAdm,     \* history: requests admitted by any path during that window
    winFirst,   \* history: instant of the first request of that window
    prevRem,    \* history: remaining reported by the latest admitted request
    rejAt,      \* history: instant of the latest rejection, if nothing was decided since
    raced,      \* history: two calls for the key were in flight together
    kvLog,      \* history: the instants of the latest admissions by the sliding window
    faulty,     \* history: a Durable Object or KV call failed
    ticks,      \* number of clock advances so far
    users,      \* table users: id -> row
    sessions,   \* table sessions: set of rows
    nextSecret, \* values crypto.getRandomValues / randomUUID have produced so far
    issued,     \* history: tokens that left the server (emailed link, cookie)
    jar,        \* history: the Set-Cookie headers sent, with their Max-Age deadline
    consumed,   \* history: tokens whose verification has succeeded
    reused,     \* history: tokens whose verification has succeeded more than once
    proc,       \* in-flight /auth requests: position and locals
    resp,       \* the response sent in the step just taken
    env,        \* the Worker's bindings that the /auth handlers read
    tenants,    \* table tenants: slug -> row
    memberships, \* table memberships: set of rows
    treq,       \* in-flight tenant-scoped requests: position and context variables
    pw,         \* a password, a stored hash and the verdict of verifyPassword
    pipe,       \* in-flight requests of the router: route and middleware run so far
    orders,     \* table orders: id -> status
    oreq,       \* the latest PATCH of an order's status and its answer
    subscriptions, \* table subscriptions: set of rows
    wreq        \* the Stripe subscription event being delivered and its deliveries

rlVars == <<opts, doBound, kvBound, counts, kv, req, last, doAdm, allAdm, kvLog,
            winFirst, prevRem, rejAt, raced, faulty>>

authVars == <<ticks, users, sessions, nextSecret, issued, jar, consumed, reused, proc,
              resp>>

extVars == <<env, tenants, memberships, treq, pw, pipe, orders, oreq,
             subscriptions, wreq>>

vars == <<clock, rlVars, authVars, extVars>>

\* ------------------------------------------------------------ bounds
NReq == 2
TickMs == 500
MaxTicks == 2
MaxSecrets == 3
MaxJumps == 1

Reqs == 1..NReq

\* `undefined` of an optional number field
Undef == 0 - 1

\* ------------------------------------------------------------ program constants
SESSION_TTL_DAYS == 14
PBKDF2_ITERATIONS == 310000
\* the /auth lifetimes, in seconds: SpecAuth counts clock in seconds
SessionTtlSec == SESSION_TTL_DAYS * 86400
\* maxAge: SESSION_TTL_DAYS * 86400
CookieMaxAge == SESSION_TTL_DAYS * 86400
VerifyTtlSec == 24 * 60 * 60
ResetTtlSec == 60 * 60
MinRetryMs == 1000

\* The preset limiters.  keyPrefix and useStrongConsistency are the presets';
\* windowMs and max are scaled down from 15 min / 10, 1 h / 5, 1 min / 60,
\* 1 min / 20 and 1 h / 10 so that windows fill and elapse within a few ticks.
\* Two windows lie below the 1000 ms floor of checkKV's retryAfterMs.
Presets ==
    { [keyPrefix |-> "login",    useStrongConsistency |-> TRUE,  windowMs |-> 1000, max |-> 2],
      [keyPrefix |-> "reset",    useStrongConsistency |-> TRUE,  windowMs |-> 1000, max |-> 1],
      [keyPrefix |-> "public",   useStrongConsistency |-> FALSE, windowMs |-> 1000, max |-> 2],
      [keyPrefix |-> "upload",   useStrongConsistency |-> FALSE, windowMs |-> 500,  max |-> 1],
      [keyPrefix |-> "register", useStrongConsistency |-> TRUE,  windowMs |-> 500,  max |-> 1] }

StrongScopes == {"login", "reset", "register"}

\* storageKey = `rl:${opts.keyPrefix ?? 'default'}:${ip}`
StorageKey(o) == <<"rl", o.keyPrefix, "ip">>

Max2(a, b) == IF a >= b THEN a ELSE b

\* ------------------------------------------------------------ RateLimiterDO.fetch
\* !entry || now - entry.windowStart >= windowMs
DOWindowElapsedLate(cs, key, now, windowMs) ==
    key \notin DOMAIN cs \/ now - cs[key].windowStart > windowMs

DOWindowElapsed(cs, key, now, windowMs) ==
    key \notin DOMAIN cs \/ now - cs[key].windowStart >= windowMs

\* entry.count >= max
DOLimitReachedOffByOne(entry, max) == entry.count > max

DOLimitReached(entry, max) == entry.count >= max

\* windowMs - (now - entry.windowStart)
DORetryAfterMsNoElapsed(entry, now, windowMs) == windowMs

DORetryAfterMs(entry, now, windowMs) == windowMs - (now - entry.windowStart)

\* entry.count++; remaining: max - entry.count
DORemainingBeforeIncrement(entry, max) == max - entry.count

DORemaining(entry, max) == max - (entry.count + 1)

\* the JSON body of the Durable Object's response
DOReply(cs, key, now, windowMs, max) ==
    IF DOWindowElapsed(cs, key, now, windowMs)
    THEN [allowed |-> TRUE, remaining |-> max - 1, retryAfterMs |-> Undef]
    ELSE IF DOLimitReached(cs[key], max)
    THEN [allowed |-> FALSE, remaining |-> 0,
          retryAfterMs |-> DORetryAfterMs(cs[key], now, windowMs)]
    ELSE [allowed |-> TRUE, remaining |-> DORemaining(cs[key], max),
          retryAfterMs |-> Undef]

\* a rejected call is counted as well
DOCountsRejectionCounted(cs, key, now, windowMs, max) ==
    IF DOWindowElapsed(cs, key, now, windowMs)
    THEN [k \in {key} |-> [count |-> 1, windowStart |-> now]]
    ELSE [cs EXCEPT ![key].count = @ + 1]

DOCountsLostUpdate(cs, key, now, windowMs, max) ==
    IF DOWindowElapsed(cs, key, now, windowMs)
    THEN [k \in {key} |-> [count |-> 1, windowStart |-> now]]
    ELSE IF DOLimitReached(cs[key], max)
    THEN cs
    ELSE cs

\* this.counts after the call
DOCounts(cs, key, now, windowMs, max) ==
    IF DOWindowElapsed(cs, key, now, windowMs)
    THEN [k \in {key} |-> [count |-> 1, windowStart |-> now]]
    ELSE IF DOLimitReached(cs[key], max)
    THEN cs
    ELSE [cs EXCEPT ![key].count = @ + 1]

\* ------------------------------------------------------------ checkKV
\* raw ? JSON.parse(raw) : []
KVParse(store, key) == IF key \in DOMAIN store THEN store[key] ELSE << >>

KeepsOlder(ts, windowStart) == ts >= windowStart

\* ts => ts > windowStart
Keeps(ts, windowStart) == ts > windowStart

\* timestamps.filter(ts => ts > windowStart), windowStart = now - opts.windowMs
KVFilter(timestamps, now, windowMs) ==
    SelectSeq(timestamps, LAMBDA ts : Keeps(ts, now - windowMs))

KVLimitReachedOffByOne(timestamps, max) == Len(timestamps) > max

\* timestamps.length >= opts.max
KVLimitReached(timestamps, max) == Len(timestamps) >= max

KVRetryAfterMsNoFloor(timestamps, now, windowMs) == timestamps[1] + windowMs - now

\* Math.max(oldestInWindow + opts.windowMs - now, 1000)
KVRetryAfterMs(timestamps, now, windowMs) ==
    Max2(timestamps[1] + windowMs - now, MinRetryMs)

KVRemainingBeforePush(pushed, max) == max - (Len(pushed) - 1)

\* opts.max - timestamps.length, after timestamps.push(now)
KVRemaining(pushed, max) == max - Len(pushed)

FailClosed == [allowed |-> FALSE, remaining |-> Undef, retryAfterMs |-> Undef]

\* { allowed: true } of the catch blocks and of the unbound namespace
FailOpen == [allowed |-> TRUE, remaining |-> Undef, retryAfterMs |-> Undef]

\* ------------------------------------------------------------ history bookkeeping
\* the last n elements of a sequence
Latest(seq, n) ==
    IF Len(seq) <= n THEN seq ELSE SubSeq(seq, Len(seq) - n + 1, Len(seq))

Idle == [pc |-> "idle", now |-> 0, timestamps |-> << >>, dropped |-> 0]

InFlight(r) == req[r].pc # "idle"

\* a new call takes the lowest free slot (slots are interchangeable)
Free(r) == req[r].pc = "idle" /\ \A o \in Reqs : o < r => InFlight(o)

Overlap(r) == \E o \in Reqs \ {r} : InFlight(o)

NoLast ==
    [via |-> "none", allowed |-> TRUE, remaining |-> Undef, retryAfterMs |-> Undef,
     now |-> 0, newWindow |-> FALSE, dropped |-> 0, pre |-> 0, first |-> Undef,
     prevRem |-> Undef, prevRej |-> Undef, doFailed |-> FALSE, kvTried |-> FALSE]

Sat(n) == IF n > opts.max THEN opts.max + 1 ELSE n

\* the decision d is handed to the middleware
Record(d) ==
    /\ last' = [d EXCEPT !.prevRem = prevRem, !.prevRej = rejAt]
    /\ prevRem' = IF d.allowed THEN d.remaining ELSE prevRem
    /\ rejAt' = IF d.allowed THEN Undef ELSE clock

NoDecision ==
    /\ last' = NoLast
    /\ UNCHANGED <<prevRem, rejAt>>

\* the window bookkeeping when the Durable Object has processed a call at `now`:
\* byDO is the object's own decision, admitted the decision the middleware acts on
WindowBook(fresh, now, byDO, admitted) ==
    /\ winFirst' = IF fresh THEN now ELSE winFirst
    /\ doAdm' = IF fresh THEN 1 ELSE IF byDO THEN doAdm + 1 ELSE doAdm
    /\ allAdm' = IF fresh THEN 1 ELSE IF admitted THEN Sat(allAdm + 1) ELSE allAdm

\* an admission the Durable Object did not see
WindowBookOutside ==
    /\ allAdm' = IF /\ StorageKey(opts) \in DOMAIN counts
                    /\ clock - counts[StorageKey(opts)].windowStart < opts.windowMs
                 THEN Sat(allAdm + 1) ELSE allAdm
    /\ UNCHANGED <<doAdm, winFirst>>

Opened(d) == [NoLast EXCEPT !.via = "open", !.allowed = d.allowed,
                            !.remaining = d.remaining, !.retryAfterMs = d.retryAfterMs]

\* ------------------------------------------------------------ tokens and hashes
\* Strings are sequences of symbols.  A user id is "u" and a raw secret "s"
\* followed by the digit n, n being the n-th value the random source has
\* produced; neither holds the symbol ".".
Digit(n) == <<"0", "1", "2", "3", "4", "5", "6", "7", "8", "9">>[n + 1]

NoUser == <<"u", "0">>
Bogus == <<"s", "0">>
Null == << >>

generateSecureToken(n) == <<"s", Digit(n)>>

randomUUID(n) == <<"u", Digit(n)>>

hashTokenPlain(rawToken) == rawToken

\* SHA-256: one-way and collision free, so an injective tag over the input
hashToken(rawToken) == <<"sha256">> \o rawToken

timingSafeEqualIgnoresContent(a, b) == Len(a) = Len(b)

timingSafeEqual(a, b) ==
    IF Len(a) # Len(b) THEN FALSE
    ELSE \A i \in 1..Len(a) : a[i] = b[i]

verifyResetToken(rawToken, storedHash) ==
    timingSafeEqual(hashToken(rawToken), storedHash)

\* `${userId}.${rawSecret}`
Compose(userId, rawSecret) == userId \o <<".">> \o rawSecret

\* token.indexOf('.'), 0 standing for -1
IndexOfDot(token) ==
    IF \E i \in 1..Len(token) : token[i] = "."
    THEN CHOOSE i \in 1..Len(token) :
            token[i] = "." /\ \A j \in 1..(i - 1) : token[j] # "."
    ELSE 0

\* token.slice(0, dotIdx), token.slice(dotIdx + 1)
ParseToken(token) ==
    [userId    |-> SubSeq(token, 1, IndexOfDot(token) - 1),
     rawSecret |-> SubSeq(token, IndexOfDot(token) + 1, Len(token))]

\* PBKDF2 with a fixed salt per model run: the derived bits are a function of
\* password, salt and iteration count
deriveBits(password, salt, iterations) == <<password, salt, iterations>>

\* hashPassword as built with the iteration constant set to `iterations`
hashPasswordWith(password, salt, iterations) ==
    <<"pbkdf2-sha256", iterations, salt, deriveBits(password, salt, iterations)>>

hashPassword(password) == hashPasswordWith(password, "salt", PBKDF2_ITERATIONS)

\* the hash the seed script writes: $sha256$<sha256(password + 'seed-salt')>
seedHash(password) == <<"sha256", <<password, "seed-salt">>>>

\* the iteration count below which verifyPassword refuses a stored hash
MinIterations == 100000

\* verifyPassword reaches crypto.subtle.deriveBits for this stored string
Derives(stored) ==
    /\ stored[1] # "sha256"
    /\ Len(stored) = 4
    /\ stored[1] = "pbkdf2-sha256"
    /\ stored[2] >= MinIterations

\* the derivation runs with the iteration constant of the build instead of
\* the count of the stored string
verifyPasswordBuildCount(password, stored) ==
    IF stored[1] = "sha256"
    THEN env.nodeProcess /\ timingSafeEqual(seedHash(password), stored)
    ELSE /\ Derives(stored)
         /\ timingSafeEqual(deriveBits(password, stored[3], pw.configured),
                            stored[4])

\* stored format $pbkdf2-sha256$<iterations>$<salt-hex>$<hash-hex>; the
\* iteration count and the salt are read from the stored string.  A stored
\* string that starts with $sha256$ is compared without a derivation, and
\* only where the runtime has a process global
verifyPassword(password, stored) ==
    IF stored[1] = "sha256"
    THEN env.nodeProcess /\ timingSafeEqual(seedHash(password), stored)
    ELSE /\ Derives(stored)
         /\ timingSafeEqual(deriveBits(password, stored[3], stored[2]),
                            stored[4])

\* a dummy with an iteration count that verifyPassword refuses
dummyHashLowCount == <<"pbkdf2-sha256", 1000, "00", <<"00">>>>

\* '$pbkdf2-sha256$310000$' + '00'.repeat(32) + '$' + '00'.repeat(32)
dummyHash == <<"pbkdf2-sha256", 310000, "00", <<"00">>>>

ExpiredAfterGrace(expiresAt, now) == expiresAt + VerifyTtlSec < now

\* new Date(expiresAt) < new Date()
Expired(expiresAt, now) == expiresAt < now

\* email.toLowerCase()
toLowerCase(email) == IF email = "Ann@x.io" THEN "ann@x.io" ELSE email

\* ------------------------------------------------------------ /auth bookkeeping
\* now: Date.now() when the previous statement resolved, which is when the
\* arguments of the next statement are computed; seen: the expiresAt of the
\* session row that validateSession read
IdleP == [op |-> "none", pc |-> "idle", userId |-> NoUser, raw |-> Null,
          email |-> "", password |-> "", late |-> FALSE, stale |-> FALSE,
          now |-> 0, seen |-> 0, kdf |-> FALSE, known |-> FALSE,
          failed |-> ""]

NoResp == [op |-> "none", status |-> 0, outcome |-> "", userId |-> NoUser,
           raw |-> Null, late |-> FALSE, stale |-> FALSE, kdf |-> FALSE,
           known |-> FALSE, failed |-> ""]

\* the tables are empty and no /auth request is in flight
\* the bindings of a deployment with the mail provider configured
ProdEnv == [RESEND_API_KEY |-> TRUE, nodeProcess |-> FALSE]

\* nothing outside the rate limiter and /auth is in use
ExtQuiet ==
    /\ tenants = << >>
    /\ memberships = {}
    /\ treq = << >>
    /\ pw = << >>
    /\ pipe = << >>
    /\ orders = << >>
    /\ oreq = << >>
    /\ subscriptions = {}
    /\ wreq = << >>

AuthQuiet ==
    /\ ticks = 0
    /\ users = [u \in {} |-> 0]
    /\ sessions = {}
    /\ nextSecret = 1
    /\ issued = {}
    /\ jar = {}
    /\ consumed = {}
    /\ reused = {}
    /\ proc = [p \in Reqs |-> IdleP]
    /\ resp = NoResp

\* ------------------------------------------------------------ rateLimit middleware
InitRL ==
    /\ clock = 0
    /\ opts \in Presets
    /\ doBound \in BOOLEAN
    /\ kvBound \in BOOLEAN
    \* a binding the scope never reads is taken as bound
    /\ ~opts.useStrongConsistency => doBound
    /\ (opts.useStrongConsistency /\ doBound) => kvBound
    /\ counts = [k \in {} |-> 0]
    /\ kv = [k \in {} |-> 0]
    /\ req = [r \in Reqs |-> Idle]
    /\ last = NoLast
    /\ doAdm = 0
    /\ allAdm = 0
    /\ winFirst = Undef
    /\ prevRem = Undef
    /\ rejAt = Undef
    /\ raced = FALSE
    /\ kvLog = << >>
    /\ faulty = FALSE
    /\ AuthQuiet
    /\ env = ProdEnv
    /\ ExtQuiet

\* rateLimit -> checkDO with the namespace bound: stub.fetch is issued
CheckDOCall(r) ==
    /\ Free(r)
    /\ opts.useStrongConsistency /\ doBound
    /\ req' = [req EXCEPT ![r].pc = "do_fetch"]
    /\ raced' = (raced \/ Overlap(r))
    /\ NoDecision
    /\ UNCHANGED <<clock, opts, doBound, kvBound, kvLog, counts, kv, doAdm, allAdm, winFirst, faulty>>
    /\ UNCHANGED <<authVars, extVars>>

\* RateLimiterDO.fetch runs to completion and checkDO returns its JSON
DOFetchCall(r) ==
    /\ req[r].pc = "do_fetch"
    /\ LET key == StorageKey(opts)
           now == clock
           reply == DOReply(counts, key, now, opts.windowMs, opts.max)
           fresh == DOWindowElapsed(counts, key, now, opts.windowMs)
       IN /\ counts' = DOCounts(counts, key, now, opts.windowMs, opts.max)
          /\ Record([NoLast EXCEPT !.via = "do", !.allowed = reply.allowed,
                        !.remaining = reply.remaining,
                        !.retryAfterMs = reply.retryAfterMs,
                        !.now = now, !.newWindow = fresh,
                        !.pre = IF fresh THEN 0 ELSE doAdm,
                        !.first = IF fresh THEN Undef ELSE winFirst])
          /\ WindowBook(fresh, now, reply.allowed, reply.allowed)
    /\ req' = [req EXCEPT ![r] = Idle]
    /\ UNCHANGED <<clock, opts, doBound, kvBound, kvLog, kv, raced, faulty>>

DOFetch(r) ==
    /\ DOFetchCall(r)
    /\ UNCHANGED <<authVars, extVars>>

\* stub.fetch or res.json() throws: the catch block of checkDO.  The object may
\* or may not have processed the call before the failure.
DOFails(r, processed) ==
    /\ req[r].pc = "do_fetch"
    /\ LET key == StorageKey(opts)
           fresh == DOWindowElapsed(counts, key, clock, opts.windowMs)
       IN IF processed
          THEN /\ counts' = DOCounts(counts, key, clock, opts.windowMs, opts.max)
               /\ WindowBook(fresh, clock,
                             DOReply(counts, key, clock, opts.windowMs, opts.max).allowed,
                             FailOpen.allowed)
          ELSE /\ counts' = counts
               /\ WindowBookOutside
    /\ Record([Opened(FailOpen) EXCEPT !.now = clock, !.doFailed = TRUE])
    /\ req' = [req EXCEPT ![r] = Idle]
    /\ faulty' = TRUE
    /\ UNCHANGED <<clock, opts, doBound, kvBound, kvLog, kv, raced>>
    /\ UNCHANGED <<authVars, extVars>>

\* the scope's backend is KV: useStrongConsistency is off, or checkDO finds no
\* Durable Object namespace and returns checkKV(...)
UsesKV == ~opts.useStrongConsistency \/ ~doBound

\* checkKV with no KV namespace bound
CheckKVUnbound(r) ==
    /\ Free(r)
    /\ UsesKV /\ ~kvBound
    /\ Record([Opened(FailOpen) EXCEPT !.now = clock])
    /\ WindowBookOutside
    /\ faulty' = TRUE
    /\ UNCHANGED <<clock, opts, doBound, kvBound, kvLog, counts, kv, req, raced>>
    /\ UNCHANGED <<authVars, extVars>>

\* checkKV: now = Date.now(); kv.get is issued
CheckKVCall(r) ==
    /\ Free(r)
    /\ UsesKV /\ kvBound
    /\ req' = [req EXCEPT ![r] = [pc |-> "kv_get", now |-> clock,
                                  timestamps |-> << >>, dropped |-> 0]]
    /\ raced' = (raced \/ Overlap(r))
    /\ NoDecision
    /\ UNCHANGED <<clock, opts, doBound, kvBound, kvLog, counts, kv, doAdm, allAdm, winFirst, faulty>>
    /\ UNCHANGED <<authVars, extVars>>

\* kv.get returns; filter; reject, or push(now) and issue kv.put
KVGet(r) ==
    /\ req[r].pc = "kv_get"
    /\ LET key == StorageKey(opts)
           now == req[r].now
           read == KVParse(kv, key)
           timestamps == KVFilter(read, now, opts.windowMs)
       IN IF KVLimitReached(timestamps, opts.max)
          THEN /\ Record([NoLast EXCEPT !.via = "kv", !.allowed = FALSE,
                             !.retryAfterMs = KVRetryAfterMs(timestamps, now, opts.windowMs),
                             !.now = now, !.dropped = Len(read) - Len(timestamps),
                             !.pre = Len(timestamps), !.first = timestamps[1],
                             !.kvTried = TRUE])
               /\ req' = [req EXCEPT ![r] = Idle]
          ELSE /\ NoDecision
               /\ req' = [req EXCEPT ![r].pc = "kv_put",
                                     ![r].timestamps = Append(timestamps, now),
                                     ![r].dropped = Len(read) - Len(timestamps)]
    /\ UNCHANGED <<clock, opts, doBound, kvBound, kvLog, counts, kv, doAdm, allAdm, winFirst,
                   raced, faulty>>
    /\ UNCHANGED <<authVars, extVars>>

\* kv.get throws: the catch block of checkKV
KVGetFails(r) ==
    /\ req[r].pc = "kv_get"
    /\ Record([Opened(FailOpen) EXCEPT !.now = req[r].now, !.kvTried = TRUE])
    /\ WindowBookOutside
    /\ req' = [req EXCEPT ![r] = Idle]
    /\ faulty' = TRUE
    /\ UNCHANGED <<clock, opts, doBound, kvBound, kvLog, counts, kv, raced>>
    /\ UNCHANGED <<authVars, extVars>>

\* kv.put completes; checkKV returns allowed with the remaining quota
KVPut(r) ==
    /\ req[r].pc = "kv_put"
    /\ LET key == StorageKey(opts)
           pushed == req[r].timestamps
       IN /\ kv' = [k \in {key} |-> pushed]
          /\ Record([NoLast EXCEPT !.via = "kv", !.allowed = TRUE,
                        !.remaining = KVRemaining(pushed, opts.max),
                        !.now = req[r].now,
                        !.dropped = req[r].dropped,
                        !.pre = Len(pushed) - 1, !.first = pushed[1],
                        !.kvTried = TRUE])
    /\ kvLog' = Latest(Append(kvLog, req[r].now), opts.max + 1)
    /\ WindowBookOutside
    /\ req' = [req EXCEPT ![r] = Idle]
    /\ UNCHANGED <<clock, opts, doBound, kvBound, counts, raced, faulty>>
    /\ UNCHANGED <<authVars, extVars>>

\* kv.put throws: the catch block of checkKV.  The write may or may not have
\* been applied before the failure.
KVPutFails(r, applied) ==
    /\ req[r].pc = "kv_put"
    /\ kv' = IF applied THEN [k \in {StorageKey(opts)} |-> req[r].timestamps] ELSE kv
    /\ Record([Opened(FailOpen) EXCEPT !.now = req[r].now, !.kvTried = TRUE])
    /\ WindowBookOutside
    /\ req' = [req EXCEPT ![r] = Idle]
    /\ faulty' = TRUE
    /\ UNCHANGED <<clock, opts, doBound, kvBound, kvLog, counts, raced>>
    /\ UNCHANGED <<authVars, extVars>>

\* time passes
TickRL ==
    /\ clock + TickMs <= MaxTicks * TickMs
    /\ clock' = clock + TickMs
    /\ last' = NoLast
    /\ UNCHANGED <<opts, doBound, kvBound, kvLog, counts, kv, req, doAdm, allAdm, winFirst,
                   prevRem, rejAt, raced, faulty>>
    /\ UNCHANGED <<authVars, extVars>>

NextRL ==
    \/ \E r \in Reqs : CheckDOCall(r)
    \/ \E r \in Reqs : DOFetch(r)
    \/ \E r \in Reqs, processed \in BOOLEAN : DOFails(r, processed)
    \/ \E r \in Reqs : CheckKVUnbound(r)
    \/ \E r \in Reqs : CheckKVCall(r)
    \/ \E r \in Reqs : KVGet(r)
    \/ \E r \in Reqs : KVGetFails(r)
    \/ \E r \in Reqs : KVPut(r)
    \/ \E r \in Reqs, applied \in BOOLEAN : KVPutFails(r, applied)
    \/ TickRL


SpecRL == InitRL /\ [][NextRL]_vars

\* ============================================================ claims: rate limiter
Strong == opts.keyPrefix \in StrongScopes

Decided == last.via \in {"do", "kv"}

SameWindow ==
    IF last.via = "do" THEN ~last.newWindow ELSE last.dropped = 0 /\ last.pre > 0

\* C2 as stated: in either backend a request under the limit is admitted, and
\* within one window each admitted request reports a remaining quota one less
\* than the previous admitted request.
C2_RemainingDecreasesByOne ==
    Decided =>
        /\ last.pre < opts.max => last.allowed
        /\ (last.allowed /\ SameWindow /\ last.prevRem # Undef)
               => last.remaining = last.prevRem - 1

\* C2 amended: as stated for the Durable Object backend; for the KV backend when
\* the requests for the key are processed one at a time.
C2_RemainingDecreasesByOneSerial ==
    (Decided /\ (last.via = "kv" => ~raced)) =>
        /\ last.pre < opts.max => last.allowed
        /\ (last.allowed /\ SameWindow /\ last.prevRem # Undef)
               => last.remaining = last.prevRem - 1

C2_Witness ==
    /\ last.via = "do" /\ raced /\ last.allowed /\ ~last.newWindow
    /\ last.prevRem = 1 /\ last.remaining = 0

C4_AdmittedAfterWindow ==
    (last.via # "none" /\ last.prevRej # Undef
        /\ last.now >= last.prevRej + opts.windowMs) => last.allowed

C4_Witness ==
    /\ last.via = "kv" /\ last.allowed
    /\ last.prevRej # Undef
    /\ last.now >= last.prevRej + opts.windowMs

\* C5 as stated: N requests in succession are admitted, the Nth reports
\* remaining = 0, and the next one in the window is rejected with
\* retryAfterMs = windowMs - (now - first request of the window).
C5_RetryIsWindowMinusElapsed ==
    (Decided /\ ~raced /\ ~faulty) =>
        /\ last.pre < opts.max => last.allowed
        /\ (last.allowed /\ last.pre = opts.max - 1) => last.remaining = 0
        /\ ~last.allowed =>
               last.retryAfterMs = opts.windowMs - (last.now - last.first)

\* C5 amended: as stated for the Durable Object backend; in the KV backend, for
\* requests processed one at a time without store failure, the rejection carries
\* the larger of windowMs - elapsed and 1000.
C5_RetryIsWindowMinusElapsedFloored ==
    (Decided /\ (last.via = "kv" => ~raced /\ ~faulty)) =>
        /\ last.pre < opts.max => last.allowed
        /\ (last.allowed /\ last.pre = opts.max - 1) => last.remaining = 0
        /\ (~last.allowed /\ last.via = "do") =>
               last.retryAfterMs = opts.windowMs - (last.now - last.first)
        /\ (~last.allowed /\ last.via = "kv") =>
               last.retryAfterMs =
                   Max2(opts.windowMs - (last.now - last.first), MinRetryMs)

C5_Witness ==
    /\ last.via = "do" /\ ~last.allowed
    /\ last.pre = opts.max
    /\ last.now > last.first
    /\ prevRem = 0

\* C6 as stated: when the Durable Object call fails, checkDO takes the decision
\* from checkKV.
C6_DOFailureFallsBackToKV == last.doFailed => last.kvTried

\* C7: a missing KV namespace, a failed read or a failed write admits the
\* request; every rejection comes from a decision on data that was read.
C7_KVFailureAdmits ==
    /\ (last.via = "open" /\ ~last.doFailed) => last.allowed
    /\ ~last.allowed => Decided

C7_Witness ==
    /\ last.via = "open" /\ last.kvTried /\ last.allowed
    /\ ~opts.useStrongConsistency
    /\ StorageKey(opts) \in DOMAIN kv

\* ======================================================================== /auth
\* ------------------------------------------------------------ inputs
EmailInputs == {"Ann@x.io", "ann@x.io"}
Passwords == {"pw1"}
NewPasswords == {"pw2"}
\* the clock jumps past the shortest or past the longest lifetime
TickSteps == {ResetTtlSec + 1, SessionTtlSec + 1}

\* links a client can present: every link that was sent, a wrong secret for
\* every known and for an unknown user id, and a string without "."
TokenInputs ==
    {Compose(i.userId, i.secret) : i \in {j \in issued : j.purpose # "session"}}
        \cup {Compose(u, Bogus) : u \in DOMAIN users}
        \cup {Compose(NoUser, Bogus), <<"x">>}

\* cookie values a client can present: every cookie that was set, a made-up
\* one, and none
CookieInputs ==
    {i.secret : i \in {j \in issued : j.purpose = "session"}} \cup {Bogus, Null}

\* ------------------------------------------------------------ rows
NewUser(userId, email, passwordHash, verifyHash, verifyExpiresAt) ==
    [id |-> userId, email |-> email, passwordHash |-> passwordHash,
     emailVerified |-> FALSE,
     resetToken |-> Null, resetTokenExpiresAt |-> Undef,
     emailVerifyToken |-> verifyHash, emailVerifyExpiresAt |-> verifyExpiresAt]

\* .set({ emailVerified: true, emailVerifyToken: null, emailVerifyExpiresAt: null })
VerifiedRow(row) ==
    [row EXCEPT !.emailVerified = TRUE, !.emailVerifyToken = Null,
                !.emailVerifyExpiresAt = Undef]

ReissuedVerifyRowKeepsOld(row, verifyHash, verifyExpiresAt) ==
    [row EXCEPT !.emailVerifyToken = IF @ = Null THEN verifyHash ELSE @,
                !.emailVerifyExpiresAt = verifyExpiresAt]

\* .set({ emailVerifyToken: verifyHash, emailVerifyExpiresAt: verifyExpiresAt })
ReissuedVerifyRow(row, verifyHash, verifyExpiresAt) ==
    [row EXCEPT !.emailVerifyToken = verifyHash,
                !.emailVerifyExpiresAt = verifyExpiresAt]

\* .set({ resetToken: tokenHash, resetTokenExpiresAt: expiresAt })
\* the update also empties the verification slot
ForgotRowClearsVerify(row, tokenHash, expiresAt) ==
    [row EXCEPT !.resetToken = tokenHash, !.resetTokenExpiresAt = expiresAt,
                !.emailVerifyToken = Null, !.emailVerifyExpiresAt = Undef]

ForgotRow(row, tokenHash, expiresAt) ==
    [row EXCEPT !.resetToken = tokenHash, !.resetTokenExpiresAt = expiresAt]

ResetRowKeepsSlot(row, passwordHash) ==
    [row EXCEPT !.passwordHash = passwordHash]

\* .set({ passwordHash, resetToken: null, resetTokenExpiresAt: null })
ResetRow(row, passwordHash) ==
    [row EXCEPT !.passwordHash = passwordHash, !.resetToken = Null,
                !.resetTokenExpiresAt = Undef]

UserByEmail(email) == {u \in DOMAIN users : users[u].email = email}

\* the lookup ignores the hash
SessionByHashAny(tokenHash) == sessions

SessionByHash(tokenHash) == {x \in sessions : x.tokenHash = tokenHash}

\* ------------------------------------------------------------ bookkeeping
Busy(p) == proc[p].pc # "idle"

FreeP(p) == ~Busy(p) /\ \A o \in Reqs : o < p => Busy(o)

Reply(op, status, outcome, pr) ==
    resp' = [op |-> op, status |-> status, outcome |-> outcome,
             userId |-> pr.userId, raw |-> pr.raw, late |-> pr.late,
             stale |-> pr.stale, kdf |-> pr.kdf, known |-> pr.known,
             failed |-> pr.failed]

Silent == resp' = NoResp

Goto(p, pr) == proc' = [proc EXCEPT ![p] = [pr EXCEPT !.now = clock]]

Done(p) == proc' = [proc EXCEPT ![p] = IdleP]

\* how a secret leaves the handler: the session secret in the Set-Cookie
\* header; a link in the mail handed to the provider when RESEND_API_KEY is
\* set, and otherwise in the console.warn line that carries the full URL
Channel(purpose) ==
    IF purpose = "session" THEN "cookie"
    ELSE IF env.RESEND_API_KEY THEN "email"
    ELSE "log"

\* the link or cookie leaves the server; seq is its place in the order of sending
Issue(purpose, userId, secret) ==
    issued' = issued \cup {[purpose |-> purpose, userId |-> userId,
                            secret |-> secret, seq |-> Cardinality(issued) + 1,
                            via |-> Channel(purpose)]}

\* a later link for the same user and purpose has been sent
Superseded(purpose, userId, raw) ==
    \E i, j \in issued :
        /\ i.purpose = purpose /\ i.userId = userId /\ i.secret = raw
        /\ j.purpose = purpose /\ j.userId = userId /\ j.seq > i.seq

Used(purpose, pr) == <<purpose, pr.userId, pr.raw>>

\* the token's verification has succeeded: once, or once more
Consume(purpose, pr) ==
    /\ consumed' = consumed \cup {Used(purpose, pr)}
    /\ reused' = IF Used(purpose, pr) \in consumed
                 THEN reused \cup {Used(purpose, pr)} ELSE reused

\* ------------------------------------------------------------ POST /auth/register
RegisterFind(p, email, password) ==
    /\ FreeP(p)
    /\ IF UserByEmail(toLowerCase(email)) # {}
       THEN /\ Reply("register", 409, "email_taken", IdleP)
            /\ UNCHANGED <<proc, nextSecret>>
       ELSE /\ nextSecret + 1 <= MaxSecrets
            /\ Goto(p, [IdleP EXCEPT !.op = "register", !.pc = "insert_user",
                                     !.userId = randomUUID(nextSecret),
                                     !.raw = generateSecureToken(nextSecret),
                                     !.email = toLowerCase(email),
                                     !.password = password])
            /\ nextSecret' = nextSecret + 1
            /\ Silent
    /\ UNCHANGED <<clock, ticks, users, sessions, issued, jar, consumed, reused>>
    /\ UNCHANGED <<rlVars, extVars>>

RegisterInsert(p) ==
    /\ proc[p].pc = "insert_user"
    /\ IF UserByEmail(proc[p].email) # {}
       THEN \* users.email is unique: the insert throws
            /\ Reply("register", 500, "insert_failed", proc[p])
            /\ Done(p)
            /\ UNCHANGED <<users, issued>>
       ELSE /\ users' = [u \in DOMAIN users \cup {proc[p].userId} |->
                            IF u = proc[p].userId
                            THEN NewUser(u, proc[p].email,
                                         hashPassword(proc[p].password),
                                         hashToken(proc[p].raw),
                                         proc[p].now + VerifyTtlSec)
                            ELSE users[u]]
            /\ Issue("verify", proc[p].userId, proc[p].raw)
            /\ Goto(p, [proc[p] EXCEPT !.pc = "session_cleanup"])
            /\ Silent
    /\ UNCHANGED <<clock, ticks, sessions, nextSecret, consumed, reused>>
    /\ UNCHANGED jar
    /\ UNCHANGED <<rlVars, extVars>>

\* createSession: purge the user's expired sessions
CreateSessionCleanup(p) ==
    /\ proc[p].pc = "session_cleanup"
    /\ sessions' = {x \in sessions :
                        ~(x.userId = proc[p].userId /\ x.expiresAt < proc[p].now)}
    /\ Goto(p, [proc[p] EXCEPT !.pc = "session_insert"])
    /\ Silent
    /\ UNCHANGED <<clock, ticks, users, nextSecret, issued, jar, consumed, reused>>
    /\ UNCHANGED <<rlVars, extVars>>

\* the cleanup's exception leaves createSession
CleanupRethrown(p) ==
    /\ Reply(proc[p].op, 500, "error", [proc[p] EXCEPT !.failed = "cleanup"])
    /\ Done(p)

\* try { await db.delete(sessions)... } catch { /* non-critical */ }
CleanupCaught(p) ==
    /\ Goto(p, [proc[p] EXCEPT !.pc = "session_insert", !.failed = "cleanup"])
    /\ Silent

\* createSession: the purge of expired sessions throws
CreateSessionCleanupFails(p) ==
    /\ proc[p].pc = "session_cleanup"
    /\ CleanupCaught(p)
    /\ UNCHANGED <<clock, ticks, users, sessions, nextSecret, issued, jar,
                   consumed, reused>>
    /\ UNCHANGED <<rlVars, extVars>>

\* createSession: db.insert(sessions) throws, whether or not the row was
\* stored; the exception leaves createSession and the handler, and
\* app.onError answers 500
CreateSessionInsertFails(p, applied) ==
    /\ proc[p].pc = "session_insert"
    /\ nextSecret <= MaxSecrets
    /\ sessions' = IF applied
                   THEN sessions \cup
                        {[id |-> randomUUID(nextSecret), userId |-> proc[p].userId,
                          tokenHash |-> hashToken(generateSecureToken(nextSecret)),
                          expiresAt |-> proc[p].now + SessionTtlSec]}
                   ELSE sessions
    /\ nextSecret' = nextSecret + 1
    /\ Reply(proc[p].op, 500, "error", [proc[p] EXCEPT !.failed = "insert"])
    /\ Done(p)
    /\ UNCHANGED <<clock, ticks, users, issued, jar, consumed, reused>>
    /\ UNCHANGED <<rlVars, extVars>>

\* createSession: insert the session, set the cookie; register answers 201,
\* login 200
CreateSessionInsert(p) ==
    /\ proc[p].pc = "session_insert"
    /\ nextSecret <= MaxSecrets
    /\ sessions' = sessions \cup
            {[id |-> randomUUID(nextSecret), userId |-> proc[p].userId,
              tokenHash |-> hashToken(generateSecureToken(nextSecret)),
              expiresAt |-> proc[p].now + SessionTtlSec]}
    /\ Issue("session", proc[p].userId, generateSecureToken(nextSecret))
    /\ jar' = jar \cup {[secret |-> generateSecureToken(nextSecret),
                         userId |-> proc[p].userId,
                         until |-> clock + CookieMaxAge,
                         login |-> hashPassword(proc[p].password)]}
    /\ nextSecret' = nextSecret + 1
    /\ IF proc[p].op = "register"
       THEN Reply("register", 201, "created", proc[p])
       ELSE Reply("login", 200, "logged_in", proc[p])
    /\ Done(p)
    /\ UNCHANGED <<clock, ticks, users, consumed, reused>>
    /\ UNCHANGED <<rlVars, extVars>>

\* ------------------------------------------------------------ GET /auth/verify-email
VerifyEmailFind(p, token) ==
    /\ FreeP(p)
    /\ LET userId == ParseToken(token).userId
           rawSecret == ParseToken(token).rawSecret
           pr == [IdleP EXCEPT !.op = "verify", !.pc = "verify_update",
                               !.userId = userId, !.raw = rawSecret,
                               !.late = <<"verify", userId, rawSecret>> \in consumed,
                               !.stale = Superseded("verify", userId, rawSecret)]
       IN  IF IndexOfDot(token) = 0
           THEN Reply("verify", 400, "malformed", IdleP) /\ UNCHANGED proc
           ELSE IF userId \notin DOMAIN users
           THEN Reply("verify", 400, "invalid", pr) /\ UNCHANGED proc
           ELSE IF users[userId].emailVerified
           THEN Reply("verify", 200, "already_verified", pr) /\ UNCHANGED proc
           ELSE IF \/ users[userId].emailVerifyToken = Null
                   \/ users[userId].emailVerifyExpiresAt = Undef
           THEN Reply("verify", 400, "no_request", pr) /\ UNCHANGED proc
           ELSE IF Expired(users[userId].emailVerifyExpiresAt, clock)
           THEN Reply("verify", 400, "expired", pr) /\ UNCHANGED proc
           ELSE IF ~verifyResetToken(rawSecret, users[userId].emailVerifyToken)
           THEN Reply("verify", 400, "invalid", pr) /\ UNCHANGED proc
           ELSE Goto(p, pr) /\ Silent
    /\ UNCHANGED <<clock, ticks, users, sessions, nextSecret, issued, jar, consumed, reused>>
    /\ UNCHANGED <<rlVars, extVars>>

VerifyEmailUpdate(p) ==
    /\ proc[p].pc = "verify_update"
    /\ users' = [users EXCEPT ![proc[p].userId] = VerifiedRow(@)]
    /\ Consume("verify", proc[p])
    /\ Reply("verify", 200, "verified", proc[p])
    /\ Done(p)
    /\ UNCHANGED <<clock, ticks, sessions, nextSecret, issued, jar>>
    /\ UNCHANGED <<rlVars, extVars>>

\* ------------------------------------------------------------ POST /auth/resend-verification
\* requireAuth -> validateSession: look the cookie's session up
ValidateSessionFind(p, cookie, op) ==
    /\ FreeP(p)
    /\ LET found == SessionByHash(hashToken(cookie))
           session == CHOOSE x \in found : TRUE
           pr == [IdleP EXCEPT !.op = op, !.raw = cookie]
       IN  IF cookie = Null \/ found = {}
           THEN Reply(op, 401, "unauthorized", pr) /\ UNCHANGED proc
           ELSE IF Expired(session.expiresAt, clock)
           THEN Goto(p, [pr EXCEPT !.pc = "session_delete",
                                   !.userId = session.userId,
                                   !.seen = session.expiresAt]) /\ Silent
           ELSE Goto(p, [pr EXCEPT !.pc = "session_extend",
                                   !.userId = session.userId,
                                   !.seen = session.expiresAt]) /\ Silent
    /\ UNCHANGED <<clock, ticks, users, sessions, nextSecret, issued, jar, consumed, reused>>
    /\ UNCHANGED <<rlVars, extVars>>

ValidateSessionDeleteKeepsRow(p) ==
    /\ proc[p].pc = "session_delete"
    /\ Reply(proc[p].op, 401, "session_expired", proc[p])
    /\ Done(p)
    /\ UNCHANGED <<clock, ticks, users, sessions, nextSecret, issued, jar, consumed, reused>>
    /\ UNCHANGED <<rlVars, extVars>>

\* validateSession: the session had expired, delete it
ValidateSessionDelete(p) ==
    /\ proc[p].pc = "session_delete"
    /\ sessions' = sessions \ SessionByHash(hashToken(proc[p].raw))
    /\ Reply(proc[p].op, 401, "session_expired", proc[p])
    /\ Done(p)
    /\ UNCHANGED <<clock, ticks, users, nextSecret, issued, jar, consumed, reused>>
    /\ UNCHANGED <<rlVars, extVars>>

ExtendedRowKept(row, now) == row

ExtendedRowShort(row, now) == [row EXCEPT !.expiresAt = now + ResetTtlSec]

\* newExpiry = new Date(Date.now() + SESSION_TTL_DAYS * 864e5); .set({ expiresAt: newExpiry })
ExtendedRow(row, now) == [row EXCEPT !.expiresAt = now + SessionTtlSec]

\* the rolling expiry written as an insert-or-replace keyed by the token hash
ValidateSessionExtendUpsert(p) ==
    /\ proc[p].pc = "session_extend"
    /\ sessions' = {x \in sessions : x.tokenHash # hashToken(proc[p].raw)} \cup
            {[id |-> randomUUID(nextSecret), userId |-> proc[p].userId,
              tokenHash |-> hashToken(proc[p].raw),
              expiresAt |-> proc[p].now + SessionTtlSec]}
    /\ Goto(p, [proc[p] EXCEPT !.pc = IF proc[p].op = "resend" THEN "resend_find"
                                      ELSE "me_find"])
    /\ Silent
    /\ UNCHANGED <<clock, ticks, users, nextSecret, issued, jar, consumed, reused>>
    /\ UNCHANGED <<rlVars, extVars>>

\* validateSession: rolling expiry
ValidateSessionExtend(p) ==
    /\ proc[p].pc = "session_extend"
    /\ sessions' = {IF x.tokenHash = hashToken(proc[p].raw)
                    THEN ExtendedRow(x, proc[p].now)
                    ELSE x : x \in sessions}
    /\ Goto(p, [proc[p] EXCEPT !.pc = IF proc[p].op = "resend" THEN "resend_find"
                                      ELSE "me_find"])
    /\ Silent
    /\ UNCHANGED <<clock, ticks, users, nextSecret, issued, jar, consumed, reused>>
    /\ UNCHANGED <<rlVars, extVars>>

ResendFind(p) ==
    /\ proc[p].pc = "resend_find"
    /\ IF proc[p].userId \notin DOMAIN users
       THEN /\ Reply("resend", 404, "not_found", proc[p])
            /\ Done(p)
            /\ UNCHANGED nextSecret
       ELSE IF users[proc[p].userId].emailVerified
       THEN /\ Reply("resend", 200, "already_verified", proc[p])
            /\ Done(p)
            /\ UNCHANGED nextSecret
       ELSE /\ nextSecret <= MaxSecrets
            /\ Goto(p, [proc[p] EXCEPT !.pc = "resend_update",
                                       !.raw = generateSecureToken(nextSecret)])
            /\ nextSecret' = nextSecret + 1
            /\ Silent
    /\ UNCHANGED <<clock, ticks, users, sessions, issued, jar, consumed, reused>>
    /\ UNCHANGED <<rlVars, extVars>>

ResendUpdate(p) ==
    /\ proc[p].pc = "resend_update"
    /\ users' = [users EXCEPT ![proc[p].userId] =
                    ReissuedVerifyRow(@, hashToken(proc[p].raw),
                                      proc[p].now + VerifyTtlSec)]
    /\ Issue("verify", proc[p].userId, proc[p].raw)
    /\ Reply("resend", 200, "resent", proc[p])
    /\ Done(p)
    /\ UNCHANGED <<clock, ticks, sessions, nextSecret, consumed, reused>>
    /\ UNCHANGED jar
    /\ UNCHANGED <<rlVars, extVars>>

\* ------------------------------------------------------------ POST /auth/forgot
ForgotFind(p, email) ==
    /\ FreeP(p)
    /\ IF UserByEmail(toLowerCase(email)) = {}
       THEN /\ Reply("forgot", 200, "generic", IdleP)
            /\ UNCHANGED <<proc, nextSecret>>
       ELSE /\ nextSecret <= MaxSecrets
            /\ Goto(p, [IdleP EXCEPT !.op = "forgot", !.pc = "forgot_update",
                            !.userId = CHOOSE u \in UserByEmail(toLowerCase(email)) : TRUE,
                            !.raw = generateSecureToken(nextSecret)])
            /\ nextSecret' = nextSecret + 1
            /\ Silent
    /\ UNCHANGED <<clock, ticks, users, sessions, issued, jar, consumed, reused>>
    /\ UNCHANGED <<rlVars, extVars>>

ForgotUpdate(p) ==
    /\ proc[p].pc = "forgot_update"
    /\ users' = [users EXCEPT ![proc[p].userId] =
                    ForgotRow(@, hashToken(proc[p].raw), proc[p].now + ResetTtlSec)]
    /\ Issue("reset", proc[p].userId, proc[p].raw)
    /\ Reply("forgot", 200, "generic", proc[p])
    /\ Done(p)
    /\ UNCHANGED <<clock, ticks, sessions, nextSecret, consumed, reused>>
    /\ UNCHANGED jar
    /\ UNCHANGED <<rlVars, extVars>>

\* ------------------------------------------------------------ POST /auth/reset
\* the handler, from parsing the token to the comparison of the secret
ResetHandler(p, token, password) ==
    /\ FreeP(p)
    /\ LET userId == ParseToken(token).userId
           rawSecret == ParseToken(token).rawSecret
           pr == [IdleP EXCEPT !.op = "reset", !.pc = "reset_update",
                               !.userId = userId, !.raw = rawSecret,
                               !.password = password,
                               !.late = <<"reset", userId, rawSecret>> \in consumed,
                               !.stale = Superseded("reset", userId, rawSecret)]
       IN  IF IndexOfDot(token) = 0
           THEN Reply("reset", 400, "malformed", IdleP) /\ UNCHANGED proc
           ELSE IF \/ userId \notin DOMAIN users
                   \/ users[userId].resetToken = Null
                   \/ users[userId].resetTokenExpiresAt = Undef
           THEN Reply("reset", 400, "invalid", pr) /\ UNCHANGED proc
           ELSE IF Expired(users[userId].resetTokenExpiresAt, clock)
           THEN Reply("reset", 400, "expired", pr) /\ UNCHANGED proc
           ELSE IF ~verifyResetToken(rawSecret, users[userId].resetToken)
           THEN Reply("reset", 400, "invalid", pr) /\ UNCHANGED proc
           ELSE Goto(p, pr) /\ Silent
    /\ UNCHANGED <<clock, ticks, users, sessions, nextSecret, issued, jar, consumed, reused>>

ResetFind(p, token, password) ==
    /\ ResetHandler(p, token, password)
    /\ UNCHANGED <<rlVars, extVars>>

ResetUpdate(p) ==
    /\ proc[p].pc = "reset_update"
    /\ users' = [users EXCEPT ![proc[p].userId] =
                    ResetRow(@, hashPassword(proc[p].password))]
    /\ Goto(p, [proc[p] EXCEPT !.pc = "reset_delete"])
    /\ Silent
    /\ UNCHANGED <<clock, ticks, sessions, nextSecret, issued, jar, consumed, reused>>
    /\ UNCHANGED <<rlVars, extVars>>

DeleteSessionsOfUserSkipped(ss, userId) == ss

\* db.delete(sessions).where(eq(sessions.userId, userId))
DeleteSessionsOfUser(ss, userId) == {x \in ss : x.userId # userId}

\* invalidate all sessions of the user, then answer 200
ResetDeleteSessions(p) ==
    /\ proc[p].pc = "reset_delete"
    /\ sessions' = DeleteSessionsOfUser(sessions, proc[p].userId)
    /\ Consume("reset", proc[p])
    /\ Reply("reset", 200, "password_changed", proc[p])
    /\ Done(p)
    /\ UNCHANGED <<clock, ticks, users, nextSecret, issued, jar>>
    /\ UNCHANGED <<rlVars, extVars>>

\* ------------------------------------------------------------ POST /auth/login
\* the handler, from the user lookup to the 401 or the hand-over to createSession
LoginHandler(p, email, password) ==
    /\ FreeP(p)
    /\ LET found == UserByEmail(toLowerCase(email))
           user == users[CHOOSE u \in found : TRUE]
           passwordValid == IF found # {}
                            THEN verifyPassword(password, user.passwordHash)
                            ELSE verifyPassword(password, dummyHash) /\ FALSE
           kdf == IF found # {} THEN Derives(user.passwordHash)
                  ELSE Derives(dummyHash)
       IN  IF found = {} \/ ~passwordValid
           THEN Reply("login", 401, "bad_credentials",
                      [IdleP EXCEPT !.kdf = kdf, !.known = found # {},
                                    !.userId = IF found # {} THEN user.id
                                               ELSE NoUser])
                /\ UNCHANGED proc
           ELSE Goto(p, [IdleP EXCEPT !.op = "login", !.pc = "session_cleanup",
                                      !.userId = user.id,
                                      !.email = toLowerCase(email),
                                      !.password = password,
                                      !.kdf = kdf, !.known = TRUE]) /\ Silent
    /\ UNCHANGED <<clock, ticks, users, sessions, nextSecret, issued, jar, consumed, reused>>

LoginFind(p, email, password) ==
    /\ LoginHandler(p, email, password)
    /\ UNCHANGED <<rlVars, extVars>>

\* ------------------------------------------------------------ POST /auth/logout
DestroySessionOfUser(ss, cookie) ==
    {x \in ss : \A y \in ss : y.tokenHash = hashToken(cookie) => x.userId # y.userId}

\* db.delete(sessions).where(eq(sessions.tokenHash, tokenHash)), if a cookie came
DestroySession(ss, cookie) ==
    IF cookie = Null THEN ss ELSE {x \in ss : x.tokenHash # hashToken(cookie)}

Logout(p, cookie) ==
    /\ FreeP(p)
    /\ sessions' = DestroySession(sessions, cookie)
    /\ Reply("logout", 200, "logged_out", [IdleP EXCEPT !.raw = cookie])
    /\ UNCHANGED <<clock, ticks, users, nextSecret, issued, jar, consumed, reused, proc>>
    /\ UNCHANGED <<rlVars, extVars>>

\* ------------------------------------------------------------ GET /auth/me
MeFind(p) ==
    /\ proc[p].pc = "me_find"
    /\ IF proc[p].userId \notin DOMAIN users
       THEN /\ sessions' = DestroySession(sessions, proc[p].raw)
            /\ Reply("me", 404, "not_found", proc[p])
       ELSE /\ Reply("me", 200, "profile", proc[p])
            /\ UNCHANGED sessions
    /\ Done(p)
    /\ UNCHANGED <<clock, ticks, users, nextSecret, issued, jar, consumed, reused>>
    /\ UNCHANGED <<rlVars, extVars>>

\* ------------------------------------------------------------ time
TickRoll(d) ==
    /\ ticks < MaxTicks
    /\ clock' = clock + d
    /\ ticks' = ticks + 1
    /\ Silent
    /\ UNCHANGED <<users, sessions, nextSecret, issued, jar, consumed, reused, proc>>
    /\ UNCHANGED <<rlVars, extVars>>

TickAuth(d) ==
    /\ ticks < MaxJumps
    /\ clock' = clock + d
    /\ ticks' = ticks + 1
    /\ Silent
    /\ UNCHANGED <<users, sessions, nextSecret, issued, jar, consumed, reused, proc>>
    /\ UNCHANGED <<rlVars, extVars>>

\* ------------------------------------------------------------ specification
InitAuth ==
    /\ clock = 0
    /\ opts = CHOOSE o \in Presets : o.keyPrefix = "reset"
    /\ doBound = TRUE
    /\ kvBound = TRUE
    /\ counts = [k \in {} |-> 0]
    /\ kv = [k \in {} |-> 0]
    /\ req = [r \in Reqs |-> Idle]
    /\ last = NoLast
    /\ doAdm = 0
    /\ allAdm = 0
    /\ winFirst = Undef
    /\ prevRem = Undef
    /\ rejAt = Undef
    /\ raced = FALSE
    /\ kvLog = << >>
    /\ faulty = FALSE
    /\ AuthQuiet
    /\ env = ProdEnv
    /\ ExtQuiet

NextAuth ==
    \/ \E p \in Reqs, email \in EmailInputs, password \in Passwords :
            RegisterFind(p, email, password)
    \/ \E p \in Reqs : RegisterInsert(p)
    \/ \E p \in Reqs : CreateSessionCleanup(p)
    \/ \E p \in Reqs : CreateSessionInsert(p)
    \/ \E p \in Reqs, token \in TokenInputs : VerifyEmailFind(p, token)
    \/ \E p \in Reqs : VerifyEmailUpdate(p)
    \/ \E p \in Reqs, cookie \in CookieInputs : ValidateSessionFind(p, cookie, "resend")
    \/ \E p \in Reqs : ValidateSessionDelete(p)
    \/ \E p \in Reqs : ValidateSessionExtend(p)
    \/ \E p \in Reqs : ResendFind(p)
    \/ \E p \in Reqs : ResendUpdate(p)
    \/ \E p \in Reqs, email \in EmailInputs : ForgotFind(p, email)
    \/ \E p \in Reqs : ForgotUpdate(p)
    \/ \E p \in Reqs, token \in TokenInputs, password \in NewPasswords :
            ResetFind(p, token, password)
    \/ \E p \in Reqs : ResetUpdate(p)
    \/ \E p \in Reqs : ResetDeleteSessions(p)
    \/ \E d \in TickSteps : TickAuth(d)


SpecAuth == InitAuth /\ [][NextAuth]_vars

\* ------------------------------------------------------------ outgoing links
\* a deployment with RESEND_API_KEY unset (the binding is optional)
NoMailEnv == [RESEND_API_KEY |-> FALSE, nodeProcess |-> FALSE]

InitMail ==
    /\ clock = 0
    /\ opts = CHOOSE o \in Presets : o.keyPrefix = "register"
    /\ doBound = TRUE
    /\ kvBound = TRUE
    /\ counts = [k \in {} |-> 0]
    /\ kv = [k \in {} |-> 0]
    /\ req = [r \in Reqs |-> Idle]
    /\ last = NoLast
    /\ doAdm = 0
    /\ allAdm = 0
    /\ winFirst = Undef
    /\ prevRem = Undef
    /\ rejAt = Undef
    /\ raced = FALSE
    /\ kvLog = << >>
    /\ faulty = FALSE
    /\ AuthQuiet
    /\ env \in {ProdEnv, NoMailEnv}
    /\ ExtQuiet

NextMail ==
    \/ \E p \in Reqs, email \in EmailInputs, password \in Passwords :
            RegisterFind(p, email, password)
    \/ \E p \in Reqs : RegisterInsert(p)
    \/ \E p \in Reqs : CreateSessionCleanup(p)
    \/ \E p \in Reqs : CreateSessionInsert(p)
    \/ \E p \in Reqs, cookie \in CookieInputs : ValidateSessionFind(p, cookie, "resend")
    \/ \E p \in Reqs : ValidateSessionExtend(p)
    \/ \E p \in Reqs : ResendFind(p)
    \/ \E p \in Reqs : ResendUpdate(p)
    \/ \E p \in Reqs, email \in EmailInputs : ForgotFind(p, email)
    \/ \E p \in Reqs : ForgotUpdate(p)

SpecMail == InitMail /\ [][NextMail]_vars

\* ------------------------------------------------------------ tenant context
\* the rate limiter idle, for the specifications that do not exercise it
RLQuiet ==
    /\ opts = CHOOSE o \in Presets : o.keyPrefix = "public"
    /\ doBound = TRUE
    /\ kvBound = TRUE
    /\ counts = [k \in {} |-> 0]
    /\ kv = [k \in {} |-> 0]
    /\ req = [r \in Reqs |-> Idle]
    /\ last = NoLast
    /\ doAdm = 0
    /\ allAdm = 0
    /\ winFirst = Undef
    /\ prevRem = Undef
    /\ rejAt = Undef
    /\ raced = FALSE
    /\ kvLog = << >>
    /\ faulty = FALSE

MaxChanges == 2

Plans == {"free", "pro", "business"}
Roles == {"owner", "admin", "staff"}
Slug == "shop"
Member == <<"u", "a">>

\* ver counts the writes of plan (of role): history, not a column
TenantRow(plan, ver) ==
    [id |-> <<"t", "1">>, slug |-> Slug, plan |-> plan, isActive |-> TRUE, ver |-> ver]

MembershipRow(role, ver) ==
    [tenantId |-> <<"t", "1">>, userId |-> Member, role |-> role, ver |-> ver]

NoCtx == [tenantId |-> Null, role |-> "", plan |-> "", planVer |-> Undef,
          roleVer |-> Undef]

\* c.get(...) variables of a request, the tenant row resolveTenant holds, and
\* the versions in the store when the request started
IdleT == [pc |-> "idle", ctx |-> NoCtx, tenant |-> Null,
          startPlanVer |-> 0, startRoleVer |-> 0]

FindTenantAsOfLogin(ts, slug) ==
    IF slug \in DOMAIN ts /\ ts[slug].isActive
    THEN {[ts[slug] EXCEPT !.plan = "free", !.ver = 0]} ELSE {}

\* db.query.tenants.findFirst({ where: and(eq(t.slug, slug), eq(t.isActive, true)) })
FindTenant(ts, slug) ==
    IF slug \in DOMAIN ts /\ ts[slug].isActive THEN {ts[slug]} ELSE {}

\* db.query.memberships.findFirst({ where: and(eq(tenantId), eq(userId)) })
FindMembership(ms, tenantId, userId) ==
    {x \in ms : x.tenantId = tenantId /\ x.userId = userId}

tenantFrame == <<clock, rlVars, authVars, env, pw, pipe, orders, oreq,
                 subscriptions, wreq>>

\* requireAuth has found the session valid; validateSession goes on to
\* injectTenantContext when the X-Tenant-Slug header is present
TenantRequestStart(r, header) ==
    /\ treq[r].pc = "idle"
    /\ \A o \in Reqs : o < r => treq[o].pc # "idle"
    /\ treq' = [treq EXCEPT ![r] =
                   [IdleT EXCEPT !.pc = IF header THEN "inject_tenant" ELSE "resolve_tenant",
                                 !.startPlanVer = tenants[Slug].ver,
                                 !.startRoleVer =
                                     (CHOOSE x \in memberships : TRUE).ver]]
    /\ UNCHANGED <<tenants, memberships>>
    /\ UNCHANGED tenantFrame

\* injectTenantContext: read the tenant
InjectTenantFind(r) ==
    /\ treq[r].pc = "inject_tenant"
    /\ LET found == FindTenant(tenants, Slug)
       IN  treq' = [treq EXCEPT ![r].pc = IF found = {} THEN "resolve_tenant"
                                          ELSE "inject_membership",
                                ![r].tenant = IF found = {} THEN Null
                                              ELSE CHOOSE t \in found : TRUE]
    /\ UNCHANGED <<tenants, memberships>>
    /\ UNCHANGED tenantFrame

\* injectTenantContext: read the membership, set tenantId, role and plan
InjectMembershipFind(r) ==
    /\ treq[r].pc = "inject_membership"
    /\ LET found == FindMembership(memberships, treq[r].tenant.id, Member)
           membership == CHOOSE x \in found : TRUE
       IN  treq' = [treq EXCEPT
                       ![r].pc = "resolve_tenant",
                       ![r].ctx = IF found = {} THEN @
                                  ELSE [tenantId |-> treq[r].tenant.id,
                                        role |-> membership.role,
                                        plan |-> treq[r].tenant.plan,
                                        planVer |-> treq[r].tenant.ver,
                                        roleVer |-> membership.ver]]
    /\ UNCHANGED <<tenants, memberships>>
    /\ UNCHANGED tenantFrame

\* resolveTenant: read the tenant; 404 when there is none
ResolveTenantFind(r) ==
    /\ treq[r].pc = "resolve_tenant"
    /\ LET found == FindTenant(tenants, Slug)
       IN  treq' = [treq EXCEPT ![r].pc = IF found = {} THEN "idle"
                                          ELSE "resolve_membership",
                                ![r].tenant = IF found = {} THEN Null
                                              ELSE CHOOSE t \in found : TRUE]
    /\ UNCHANGED <<tenants, memberships>>
    /\ UNCHANGED tenantFrame

\* resolveTenant: read the membership (403 when there is none), set role,
\* tenantId and plan, call next()
ResolveMembershipFind(r) ==
    /\ treq[r].pc = "resolve_membership"
    /\ LET found == FindMembership(memberships, treq[r].tenant.id, Member)
           membership == CHOOSE x \in found : TRUE
       IN  treq' = [treq EXCEPT
                       ![r].pc = IF found = {} THEN "idle" ELSE "handler",
                       ![r].tenant = Null,
                       ![r].ctx = IF found = {} THEN NoCtx
                                  ELSE [tenantId |-> treq[r].tenant.id,
                                        role |-> membership.role,
                                        plan |-> treq[r].tenant.plan,
                                        planVer |-> treq[r].tenant.ver,
                                        roleVer |-> membership.ver]]
    /\ UNCHANGED <<tenants, memberships>>
    /\ UNCHANGED tenantFrame

\* the route handler has read c.get('role') and c.get('plan') and answers
TenantHandler(r) ==
    /\ treq[r].pc = "handler"
    /\ treq' = [treq EXCEPT ![r] = IdleT]
    /\ UNCHANGED <<tenants, memberships>>
    /\ UNCHANGED tenantFrame

\* the Stripe webhook writes tenants.plan
ChangePlan(plan) ==
    /\ tenants[Slug].ver < MaxChanges
    /\ plan # tenants[Slug].plan
    /\ tenants' = [tenants EXCEPT ![Slug] = TenantRow(plan, @.ver + 1)]
    /\ UNCHANGED <<memberships, treq>>
    /\ UNCHANGED tenantFrame

\* the membership's role is rewritten
ChangeRole(role) ==
    /\ \E x \in memberships :
        /\ x.ver < MaxChanges
        /\ role # x.role
        /\ memberships' = (memberships \ {x}) \cup {MembershipRow(role, x.ver + 1)}
    /\ UNCHANGED <<tenants, treq>>
    /\ UNCHANGED tenantFrame

InitTenant ==
    /\ clock = 0
    /\ RLQuiet
    /\ AuthQuiet
    /\ env = ProdEnv
    /\ tenants = [s \in {Slug} |-> TenantRow("free", 0)]
    /\ memberships = {MembershipRow("staff", 0)}
    /\ treq = [r \in Reqs |-> IdleT]
    /\ pw = << >>
    /\ pipe = << >>
    /\ orders = << >>
    /\ oreq = << >>
    /\ subscriptions = {}
    /\ wreq = << >>

NextTenant ==
    \/ \E r \in Reqs, header \in BOOLEAN : TenantRequestStart(r, header)
    \/ \E r \in Reqs : InjectTenantFind(r)
    \/ \E r \in Reqs : InjectMembershipFind(r)
    \/ \E r \in Reqs : ResolveTenantFind(r)
    \/ \E r \in Reqs : ResolveMembershipFind(r)
    \/ \E r \in Reqs : TenantHandler(r)
    \/ \E plan \in Plans : ChangePlan(plan)
    \/ \E role \in Roles : ChangeRole(role)

SpecTenant == InitTenant /\ [][NextTenant]_vars

\* ------------------------------------------------------------ sessions
SessEmails == {"ann@x.io", "bob@x.io"}
LoginPasswords == {"pw1", "pw2"}
ForgotEmails == {"Ann@x.io"}

\* a user who registered with pw1, verified the address and logged out
SeedUser(c, email) ==
    VerifiedRow(NewUser(<<"u", c>>, email, hashPassword("pw1"), Null, Undef))

InitSess ==
    /\ clock = 0
    /\ opts = CHOOSE o \in Presets : o.keyPrefix = "login"
    /\ doBound = TRUE
    /\ kvBound = TRUE
    /\ counts = [k \in {} |-> 0]
    /\ kv = [k \in {} |-> 0]
    /\ req = [r \in Reqs |-> Idle]
    /\ last = NoLast
    /\ doAdm = 0
    /\ allAdm = 0
    /\ winFirst = Undef
    /\ prevRem = Undef
    /\ rejAt = Undef
    /\ raced = FALSE
    /\ kvLog = << >>
    /\ faulty = FALSE
    /\ ticks = 0
    /\ users = [u \in {<<"u", "a">>, <<"u", "b">>} |->
                    IF u = <<"u", "a">> THEN SeedUser("a", "ann@x.io")
                    ELSE SeedUser("b", "bob@x.io")]
    /\ sessions = {}
    /\ nextSecret = 1
    /\ issued = {}
    /\ jar = {}
    /\ consumed = {}
    /\ reused = {}
    /\ proc = [p \in Reqs |-> IdleP]
    /\ resp = NoResp
    /\ env = ProdEnv
    /\ ExtQuiet

NextSess ==
    \/ \E p \in Reqs, email \in SessEmails, password \in LoginPasswords :
            LoginFind(p, email, password)
    \/ \E p \in Reqs : CreateSessionCleanup(p)
    \/ \E p \in Reqs : CreateSessionInsert(p)
    \/ \E p \in Reqs, cookie \in CookieInputs : Logout(p, cookie)
    \/ \E p \in Reqs, cookie \in CookieInputs : ValidateSessionFind(p, cookie, "me")
    \/ \E p \in Reqs : ValidateSessionExtend(p)
    \/ \E p \in Reqs : MeFind(p)
    \/ \E p \in Reqs, email \in ForgotEmails : ForgotFind(p, email)
    \/ \E p \in Reqs : ForgotUpdate(p)
    \/ \E p \in Reqs, token \in TokenInputs, password \in NewPasswords :
            ResetFind(p, token, password)
    \/ \E p \in Reqs : ResetUpdate(p)
    \/ \E p \in Reqs : ResetDeleteSessions(p)

SpecSess == InitSess /\ [][NextSess]_vars

\* ------------------------------------------------------------ rolling sessions
RollEmails == {"ann@x.io"}
RollPasswords == {"pw1"}
\* the clock moves to just before the session lifetime's end, or a little
RollTickSteps == {SessionTtlSec - 1, 2}

NextRoll ==
    \/ \E p \in Reqs, email \in RollEmails, password \in RollPasswords :
            LoginFind(p, email, password)
    \/ \E p \in Reqs : CreateSessionCleanup(p)
    \/ \E p \in Reqs : CreateSessionInsert(p)
    \/ \E p \in Reqs, cookie \in CookieInputs : ValidateSessionFind(p, cookie, "me")
    \/ \E p \in Reqs : ValidateSessionDelete(p)
    \/ \E p \in Reqs : ValidateSessionExtend(p)
    \/ \E p \in Reqs : MeFind(p)
    \/ \E d \in RollTickSteps : TickRoll(d)

SpecRoll == InitSess /\ [][NextRoll]_vars

\* ------------------------------------------------------------ login
\* ann registered through the API, own was written by the seed script, eve
\* has no account
LoginEmails == {"ann@x.io", "own@x.io", "eve@x.io"}

\* the clock moves past the lifetime of every session stored so far
LoginTickSteps == {SessionTtlSec + 1}

\* logins start while fewer than MaxLogins secrets were drawn, and the clock
\* moves MaxLoginTicks times
MaxLogins == 2
MaxLoginTicks == 1

\* a runtime with a process global
NodeEnv == [RESEND_API_KEY |-> TRUE, nodeProcess |-> TRUE]

\* INSERT ... VALUES (ownerId, 'owner@demo.com', passwordHash, ..., 1)
SeedScriptUser(c, email) ==
    VerifiedRow(NewUser(<<"u", c>>, email, seedHash("pw1"), Null, Undef))

\* POST /auth/login, while the model has secrets left to draw
LoginStart(p, email, password) ==
    /\ nextSecret <= MaxLogins
    /\ LoginFind(p, email, password)

TickLogin(d) ==
    /\ ticks < MaxLoginTicks
    /\ TickRoll(d)

InitLogin ==
    /\ clock = 0
    /\ RLQuiet
    /\ ticks = 0
    /\ users = [u \in {<<"u", "a">>, <<"u", "b">>} |->
                    IF u = <<"u", "a">> THEN SeedUser("a", "ann@x.io")
                    ELSE SeedScriptUser("b", "own@x.io")]
    /\ sessions = {}
    /\ nextSecret = 1
    /\ issued = {}
    /\ jar = {}
    /\ consumed = {}
    /\ reused = {}
    /\ proc = [p \in Reqs |-> IdleP]
    /\ resp = NoResp
    /\ env \in {ProdEnv, NodeEnv}
    /\ ExtQuiet

NextLogin ==
    \/ \E p \in Reqs, email \in LoginEmails, password \in LoginPasswords :
            LoginStart(p, email, password)
    \/ \E p \in Reqs : CreateSessionCleanup(p)
    \/ \E p \in Reqs : CreateSessionCleanupFails(p)
    \/ \E p \in Reqs : CreateSessionInsert(p)
    \/ \E p \in Reqs, applied \in BOOLEAN : CreateSessionInsertFails(p, applied)
    \/ \E d \in LoginTickSteps : TickLogin(d)

SpecLogin == InitLogin /\ [][NextLogin]_vars

\* ------------------------------------------------------------ password hashes
\* a password is hashed by a build whose iteration constant is `configured`,
\* the constant is raised to `next`, and a password is verified against the
\* stored string
PwInputs == {"pw1", "pw2", "pw3"}
Salts == {"salt", "pepper"}
IterationCounts == {50000, MinIterations, PBKDF2_ITERATIONS, 600000}

pwFrame == <<clock, rlVars, authVars, env, tenants, memberships, treq, pipe,
             orders, oreq, subscriptions, wreq>>

\* hashPassword(p) under the configured count
PwHash ==
    /\ pw.pc = "hash"
    /\ pw' = [pw EXCEPT !.pc = "stored",
                        !.stored = hashPasswordWith(pw.p, pw.salt, pw.configured)]
    /\ UNCHANGED pwFrame

\* the iteration constant of the build is raised
PwReconfigure ==
    /\ pw.pc = "stored"
    /\ pw' = [pw EXCEPT !.pc = "raised", !.configured = pw.next]
    /\ UNCHANGED pwFrame

\* verifyPassword(q, stored), before or after the constant was raised
PwVerify ==
    /\ pw.pc \in {"stored", "raised"}
    /\ pw' = [pw EXCEPT !.pc = "verified", !.raised = (pw.pc = "raised"),
                        !.ok = verifyPassword(pw.q, pw.stored)]
    /\ UNCHANGED pwFrame

InitPw ==
    /\ clock = 0
    /\ RLQuiet
    /\ AuthQuiet
    /\ env = ProdEnv
    /\ tenants = << >>
    /\ memberships = {}
    /\ treq = << >>
    /\ pipe = << >>
    /\ orders = << >>
    /\ oreq = << >>
    /\ subscriptions = {}
    /\ wreq = << >>
    /\ \E p \in PwInputs, q \in PwInputs, salt \in Salts,
          n \in IterationCounts, m \in IterationCounts :
            /\ m > n
            /\ pw = [pc |-> "hash", p |-> p, q |-> q, salt |-> salt,
                     configured |-> n, next |-> m, stored |-> Null,
                     raised |-> FALSE, ok |-> FALSE]

NextPw ==
    \/ PwHash
    \/ PwReconfigure
    \/ PwVerify

SpecPw == InitPw /\ [][NextPw]_vars

\* ------------------------------------------------------------ middleware chains
\* the middleware each route is declared with, in the order Hono runs it
\* (the global logger, secureHeaders, CORS and prettyJSON run before all of
\* them and decide nothing)
Chain(route) ==
    CASE route = "POST /auth/register" -> <<"rateLimit", "handler">>
      [] route = "POST /auth/login" -> <<"rateLimit", "handler">>
      [] route = "POST /auth/forgot" -> <<"rateLimit", "handler">>
      [] route = "POST /auth/reset" -> <<"rateLimit", "handler">>
      [] route = "POST /auth/logout" -> <<"handler">>
      [] route = "GET /auth/me" -> <<"requireAuth", "handler">>
      [] route = "POST /auth/resend-verification" -> <<"requireAuth", "handler">>
      [] route = "POST /upload/product-image" ->
            <<"requireAuth", "rateLimit", "resolveTenant", "handler">>
      [] route = "GET /store/products" ->
            <<"rateLimit", "resolveTenant", "handler">>
      [] route = "PATCH /dashboard/orders/:id/status" ->
            <<"requireAuth", "resolveTenant", "requireRole", "handler">>

Routes ==
    {"POST /auth/register", "POST /auth/login", "POST /auth/forgot",
     "POST /auth/reset",
     "POST /auth/logout", "GET /auth/me", "POST /auth/resend-verification",
     "POST /upload/product-image", "GET /store/products",
     "PATCH /dashboard/orders/:id/status"}

\* ran: the middleware that has run for the request; status 0 while the
\* request is in flight
IdlePipe == [route |-> "", ran |-> << >>, status |-> 0]

pipeFrame == <<clock, rlVars, authVars, env, tenants, memberships, treq, pw,
               orders, oreq, subscriptions, wreq>>

Current(r) == Chain(pipe[r].route)[Len(pipe[r].ran) + 1]

\* a middleware that has answered does not stop the chain
AtStageAfterAnswer(r, stage) ==
    /\ pipe[r].route # ""
    /\ Len(pipe[r].ran) < Len(Chain(pipe[r].route))
    /\ Current(r) = stage

AtStage(r, stage) ==
    /\ pipe[r].route # ""
    /\ pipe[r].status = 0
    /\ Current(r) = stage

\* await next(), or the middleware answers itself
Stage(r, stage, pass, refusal) ==
    [pipe EXCEPT ![r].ran = Append(@, stage),
                 ![r].status = IF pass THEN 0 ELSE refusal]

PipeStart(r, route) ==
    /\ pipe[r].route = "" \/ pipe[r].status # 0
    /\ pipe' = [pipe EXCEPT ![r] = [IdlePipe EXCEPT !.route = route]]
    /\ UNCHANGED pipeFrame

\* rateLimit: 429 when the limiter refuses
PipeRateLimit(r, allowed) ==
    /\ AtStage(r, "rateLimit")
    /\ pipe' = Stage(r, "rateLimit", allowed, 429)
    /\ UNCHANGED pipeFrame

\* requireAuth: 401 without a valid session
PipeRequireAuth(r, valid) ==
    /\ AtStage(r, "requireAuth")
    /\ pipe' = Stage(r, "requireAuth", valid, 401)
    /\ UNCHANGED pipeFrame

\* resolveTenant: 404 for an unknown tenant
PipeResolveTenant(r, found) ==
    /\ AtStage(r, "resolveTenant")
    /\ pipe' = Stage(r, "resolveTenant", found, 404)
    /\ UNCHANGED pipeFrame

\* requireRole: 403 for a role outside the list
PipeRequireRole(r, permitted) ==
    /\ AtStage(r, "requireRole")
    /\ pipe' = Stage(r, "requireRole", permitted, 403)
    /\ UNCHANGED pipeFrame

PipeHandler(r) ==
    /\ AtStage(r, "handler")
    /\ pipe' = Stage(r, "handler", FALSE, 200)
    /\ UNCHANGED pipeFrame

InitPipe ==
    /\ clock = 0
    /\ RLQuiet
    /\ AuthQuiet
    /\ env = ProdEnv
    /\ tenants = << >>
    /\ memberships = {}
    /\ treq = << >>
    /\ pw = << >>
    /\ pipe = [r \in Reqs |-> IdlePipe]
    /\ orders = << >>
    /\ oreq = << >>
    /\ subscriptions = {}
    /\ wreq = << >>

NextPipe ==
    \/ \E r \in Reqs, route \in Routes : PipeStart(r, route)
    \/ \E r \in Reqs, allowed \in BOOLEAN : PipeRateLimit(r, allowed)
    \/ \E r \in Reqs, valid \in BOOLEAN : PipeRequireAuth(r, valid)
    \/ \E r \in Reqs, found \in BOOLEAN : PipeResolveTenant(r, found)
    \/ \E r \in Reqs, permitted \in BOOLEAN : PipeRequireRole(r, permitted)
    \/ \E r \in Reqs : PipeHandler(r)

SpecPipe == InitPipe /\ [][NextPipe]_vars

\* ------------------------------------------------------------ PATCH /dashboard/orders/:id/status
\* z.enum(['pending', 'paid', 'shipped', 'cancelled', 'refunded'])
StatusEnum == {"pending", "paid", "shipped", "cancelled", "refunded"}

\* CHECK(status IN ('pending','paid','shipped','delivered','cancelled','refunded'))
OrderStatuses ==
    {"pending", "paid", "shipped", "delivered", "cancelled", "refunded"}

\* request bodies: a status string and a note that is absent or longer than
\* 500 characters
StatusInputs == OrderStatuses \cup {"unknown"}
NoteInputs == {"absent", "long"}
OrderIds == {"o1", "o9"}
OrderRoles == {"admin", "staff"}

\* updateOrderStatusSchema.safeParse(body).success
updateOrderStatusSchema(body) ==
    /\ body.status \in StatusEnum
    /\ body.note # "long"

NoBody == [status |-> "", note |-> "absent"]

IdleO == [pc |-> "idle", id |-> "", role |-> "", data |-> NoBody,
          order |-> Null]

NoAnswer == [status |-> 0, body |-> NoBody, parsed |-> FALSE]

orderFrame == <<clock, rlVars, authVars, env, tenants, memberships, treq, pw,
                pipe, subscriptions, wreq>>

FreeO(r) ==
    /\ oreq.slot[r].pc = "idle"
    /\ \A o \in Reqs : o < r => oreq.slot[o].pc # "idle"

Answer(r, status, body, parsed) ==
    oreq' = [slot |-> [oreq.slot EXCEPT ![r] = IdleO],
             last |-> [status |-> status, body |-> body, parsed |-> parsed]]

\* the body is parsed: 400 when the schema refuses it
OrderPatchParse(r, id, role, body) ==
    /\ FreeO(r)
    /\ IF ~updateOrderStatusSchema(body)
       THEN Answer(r, 400, body, FALSE)
       ELSE oreq' = [slot |-> [oreq.slot EXCEPT ![r] =
                                [IdleO EXCEPT !.pc = "find", !.id = id,
                                              !.role = role, !.data = body]],
                     last |-> [status |-> 0, body |-> body, parsed |-> TRUE]]
    /\ UNCHANGED orders
    /\ UNCHANGED orderFrame

\* what the handler keeps of the order row it read
Snapshot(order) ==
    [paymentMethod |-> order.paymentMethod, paymentStatus |-> order.paymentStatus]

\* the order is read: 404 when absent, 403 when staff cancels or refunds
OrderPatchFind(r) ==
    /\ oreq.slot[r].pc = "find"
    /\ LET q == oreq.slot[r]
       IN  IF q.id \notin DOMAIN orders
           THEN Answer(r, 404, NoBody, TRUE)
           ELSE IF q.role = "staff" /\ q.data.status \in {"cancelled", "refunded"}
           THEN Answer(r, 403, NoBody, TRUE)
           ELSE oreq' = [slot |-> [oreq.slot EXCEPT
                                    ![r].pc = "update", ![r].role = "",
                                    ![r].order = Snapshot(orders[q.id])],
                         last |-> NoAnswer]
    /\ UNCHANGED orders
    /\ UNCHANGED orderFrame

\* the payment status that goes with the new status
NewPaymentStatus(order, status) ==
    IF status = "cancelled"
    THEN IF order.paymentMethod = "STRIPE" THEN order.paymentStatus ELSE "UNPAID"
    ELSE IF status = "delivered" /\ order.paymentMethod = "COD" THEN "PAID"
    ELSE order.paymentStatus

\* the order is updated and the audit row written
OrderPatchUpdate(r) ==
    /\ oreq.slot[r].pc = "update"
    /\ LET q == oreq.slot[r]
       IN  /\ orders' = [orders EXCEPT ![q.id] =
                    [@ EXCEPT !.status = q.data.status,
                              !.paymentStatus =
                                    NewPaymentStatus(q.order, q.data.status),
                              !.audit = "order.status_updated"]]
           /\ Answer(r, 200, NoBody, TRUE)
    /\ UNCHANGED orderFrame

InitOrders ==
    /\ clock = 0
    /\ RLQuiet
    /\ AuthQuiet
    /\ env = ProdEnv
    /\ tenants = << >>
    /\ memberships = {}
    /\ treq = << >>
    /\ pw = << >>
    /\ pipe = << >>
    /\ \E method \in {"COD", "STRIPE"} :
            orders = [o \in {"o1"} |->
                        [status |-> "pending", paymentMethod |-> method,
                         paymentStatus |-> "UNPAID", audit |-> ""]]
    /\ oreq = [slot |-> [r \in Reqs |-> IdleO], last |-> NoAnswer]
    /\ subscriptions = {}
    /\ wreq = << >>

NextOrders ==
    \/ \E r \in Reqs, id \in OrderIds, role \in OrderRoles,
          status \in StatusInputs, note \in NoteInputs :
            OrderPatchParse(r, id, role, [status |-> status, note |-> note])
    \/ \E r \in Reqs : OrderPatchFind(r)
    \/ \E r \in Reqs : OrderPatchUpdate(r)

SpecOrders == InitOrders /\ [][NextOrders]_vars

\* ------------------------------------------------------------ limiter and handler
\* POST /auth/login and POST /auth/reset behind loginRateLimit and
\* resetRateLimit, the Durable Object answering.  ann has an unused reset
\* link from an earlier window; the clock advances by less than its lifetime.
GatedRoute == IF opts.keyPrefix = "login" THEN "POST /auth/login"
              ELSE "POST /auth/reset"

gateFrame == <<env, tenants, memberships, treq, pw, orders, oreq,
              subscriptions, wreq>>

\* the request reaches rateLimit, which issues stub.fetch
GateArrive(r) ==
    /\ pipe[r].route = "" \/ pipe[r].status # 0
    /\ req[r].pc = "idle"
    /\ pipe' = [pipe EXCEPT ![r] = [IdlePipe EXCEPT !.route = GatedRoute]]
    /\ req' = [req EXCEPT ![r].pc = "do_fetch"]
    /\ raced' = (raced \/ Overlap(r))
    /\ NoDecision
    /\ UNCHANGED <<clock, opts, doBound, kvBound, kvLog, counts, kv, doAdm, allAdm,
                   winFirst, faulty>>
    /\ UNCHANGED <<authVars, gateFrame>>

\* if (!limited.allowed) return c.json(..., 429); else await next()
GateLimit(r) ==
    /\ AtStage(r, "rateLimit")
    /\ DOFetchCall(r)
    /\ pipe' = Stage(r, "rateLimit",
                     DOReply(counts, StorageKey(opts), clock, opts.windowMs,
                             opts.max).allowed, 429)
    /\ UNCHANGED <<authVars, gateFrame>>

\* next() reaches the login handler; status 200 marks the hand-over, the
\* handler's own answer is resp
GateLogin(r, p, email, password) ==
    /\ AtStage(r, "handler")
    /\ pipe[r].route = "POST /auth/login"
    /\ LoginHandler(p, email, password)
    /\ pipe' = Stage(r, "handler", FALSE, 200)
    /\ UNCHANGED <<rlVars, gateFrame>>

\* next() reaches the reset handler
GateReset(r, p, token, password) ==
    /\ AtStage(r, "handler")
    /\ pipe[r].route = "POST /auth/reset"
    /\ ResetHandler(p, token, password)
    /\ pipe' = Stage(r, "handler", FALSE, 200)
    /\ UNCHANGED <<rlVars, gateFrame>>

InitGate ==
    /\ clock = 0
    /\ opts \in {o \in Presets : o.keyPrefix \in {"login", "reset"}}
    /\ doBound = TRUE
    /\ kvBound = TRUE
    /\ counts = [k \in {} |-> 0]
    /\ kv = [k \in {} |-> 0]
    /\ req = [r \in Reqs |-> Idle]
    /\ last = NoLast
    /\ doAdm = 0
    /\ allAdm = 0
    /\ winFirst = Undef
    /\ prevRem = Undef
    /\ rejAt = Undef
    /\ raced = FALSE
    /\ kvLog = << >>
    /\ faulty = FALSE
    /\ ticks = 0
    /\ users = [u \in {<<"u", "a">>} |->
                    ForgotRow(SeedUser("a", "ann@x.io"),
                              hashToken(generateSecureToken(1)), ResetTtlSec)]
    /\ sessions = {}
    /\ nextSecret = 2
    /\ issued = {[purpose |-> "reset", userId |-> <<"u", "a">>,
                  secret |-> generateSecureToken(1), seq |-> 1, via |-> "email"]}
    /\ jar = {}
    /\ consumed = {}
    /\ reused = {}
    /\ proc = [p \in Reqs |-> IdleP]
    /\ resp = NoResp
    /\ env = ProdEnv
    /\ tenants = << >>
    /\ memberships = {}
    /\ treq = << >>
    /\ pw = << >>
    /\ pipe = [r \in Reqs |-> IdlePipe]
    /\ orders = << >>
    /\ oreq = << >>
    /\ subscriptions = {}
    /\ wreq = << >>

NextGate ==
    \/ \E r \in Reqs : GateArrive(r)
    \/ \E r \in Reqs : GateLimit(r)
    \/ \E r, p \in Reqs, email \in RollEmails, password \in LoginPasswords :
            GateLogin(r, p, email, password)
    \/ \E r, p \in Reqs, token \in TokenInputs, password \in NewPasswords :
            GateReset(r, p, token, password)
    \/ \E p \in Reqs : CreateSessionCleanup(p)
    \/ \E p \in Reqs : CreateSessionInsert(p)
    \/ \E p \in Reqs : ResetUpdate(p)
    \/ \E p \in Reqs : ResetDeleteSessions(p)
    \/ TickRL

SpecGate == InitGate /\ [][NextGate]_vars

\* ------------------------------------------------------------ POST /stripe/webhook
\* customer.subscription.created / updated events that passed the signature
\* check, processed one delivery at a time (handleEvent -> syncSubscription)
MaxDeliveries == 2

HookTenants == {<<"t", "1">>, <<"t", "2">>}

\* metadata.plan is absent
NoPlan == "undefined"

\* the Stripe.Subscription objects an event can carry: metadata.tenantId and
\* metadata.plan may be missing, customer may be null, current_period_end 0
StripeSubs ==
    [id : {<<"sub", "1">>, <<"sub", "2">>}, customer : {Null, <<"cus", "1">>},
     status : {"active", "past_due"},
     tenantId : {Null, <<"t", "1">>}, plan : {NoPlan, "business"},
     current_period_end : {0, 1700}]

HookTypes == {"created", "updated"}

NoRow == [id |-> Null]

\* rows present before the event: tenant 2 subscribed as sub_2; tenant 1 has
\* no row, or the row a cancellation left behind
RowOfTenant2 ==
    [id |-> <<"u", "9">>, tenantId |-> <<"t", "2">>, stripeSubscriptionId |-> <<"sub", "2">>,
     stripeCustomerId |-> <<"cus", "2">>, status |-> "active", plan |-> "pro",
     currentPeriodEnd |-> 1600]

CanceledRow ==
    [id |-> <<"u", "8">>, tenantId |-> <<"t", "1">>, stripeSubscriptionId |-> Null,
     stripeCustomerId |-> <<"cus", "0">>, status |-> "canceled", plan |-> "free",
     currentPeriodEnd |-> Undef]

getCustomerId(customer) == customer

\* const plan = (stripeSub.metadata?.plan ?? 'pro')
MetaPlan(stripeSub) == IF stripeSub.plan = NoPlan THEN "pro" ELSE stripeSub.plan

\* current_period_end ? new Date(current_period_end * 1000).toISOString() : null
PeriodEnd(stripeSub) ==
    IF stripeSub.current_period_end = 0 THEN Undef ELSE stripeSub.current_period_end

\* db.update(subscriptions).set({ ... }) on the row found
UpdatedRow(row, existing, stripeSub) ==
    [row EXCEPT
        !.stripeSubscriptionId = stripeSub.id,
        !.stripeCustomerId = IF getCustomerId(stripeSub.customer) # Null
                             THEN getCustomerId(stripeSub.customer)
                             ELSE existing.stripeCustomerId,
        !.status = stripeSub.status,
        !.plan = MetaPlan(stripeSub),
        !.currentPeriodEnd = PeriodEnd(stripeSub)]

\* db.insert(subscriptions).values({ id: crypto.randomUUID(), ... })
InsertedRow(n, stripeSub) ==
    [id |-> randomUUID(n), tenantId |-> stripeSub.tenantId,
     stripeSubscriptionId |-> stripeSub.id,
     stripeCustomerId |-> getCustomerId(stripeSub.customer),
     status |-> stripeSub.status, plan |-> MetaPlan(stripeSub),
     currentPeriodEnd |-> PeriodEnd(stripeSub)]

\* the table's UNIQUE columns: tenant_id, stripe_customer_id and
\* stripe_subscription_id (NULLs do not collide)
UniqueOk(rows) ==
    \A x, y \in rows :
        x # y =>
            /\ x.tenantId # y.tenantId
            /\ x.stripeCustomerId = Null \/ x.stripeCustomerId # y.stripeCustomerId
            /\ x.stripeSubscriptionId = Null
                  \/ x.stripeSubscriptionId # y.stripeSubscriptionId

\* the plan written to tenants is the one read from the row found
CachedPlanFromExisting(existing, stripeSub) ==
    IF existing = NoRow THEN MetaPlan(stripeSub) ELSE existing.plan

\* db.update(tenants).set({ plan })
CachedPlan(existing, stripeSub) == MetaPlan(stripeSub)

\* the subscriptions row of the event's tenant and tenants.plan
HookView ==
    [rows |-> {x \in subscriptions : x.tenantId = wreq.sub.tenantId},
     table |-> subscriptions,
     plan |-> [t \in DOMAIN tenants |-> tenants[t].plan]]

hookFrame == <<clock, rlVars, authVars, env, memberships, treq, pw, pipe, orders, oreq>>

\* the delivery is answered; the first answer fixes the state "processed once"
Answered(status) ==
    [wreq EXCEPT !.pc = "idle", !.existing = NoRow, !.answer = status,
                 !.delivered = @ + 1]

\* handleEvent reaches syncSubscription; without metadata.tenantId it returns
HookDeliver ==
    /\ wreq.pc = "idle"
    /\ wreq.delivered < MaxDeliveries
    /\ wreq' = IF wreq.sub.tenantId = Null
               THEN [Answered(200) EXCEPT
                        !.once = IF wreq.delivered = 0 THEN HookView ELSE @]
               ELSE [wreq EXCEPT !.pc = "find", !.answer = 0]
    /\ UNCHANGED <<subscriptions, tenants>>
    /\ UNCHANGED hookFrame

\* db.query.subscriptions.findFirst({ where: eq(subscriptions.tenantId, tenantId) })
HookFind ==
    /\ wreq.pc = "find"
    /\ LET found == {x \in subscriptions : x.tenantId = wreq.sub.tenantId}
       IN  wreq' = [wreq EXCEPT !.pc = "upsert",
                        !.existing = IF found = {} THEN NoRow
                                     ELSE CHOOSE x \in found : TRUE]
    /\ UNCHANGED <<subscriptions, tenants>>
    /\ UNCHANGED hookFrame

\* the update or the insert; a UNIQUE violation throws, handleEvent's caller
\* answers 500
HookUpsert ==
    /\ wreq.pc = "upsert"
    /\ LET after ==
              IF wreq.existing # NoRow
              THEN {IF x.tenantId = wreq.sub.tenantId
                    THEN UpdatedRow(x, wreq.existing, wreq.sub)
                    ELSE x : x \in subscriptions}
              ELSE subscriptions \cup {InsertedRow(wreq.delivered + 1, wreq.sub)}
       IN  IF UniqueOk(after)
           THEN /\ subscriptions' = after
                /\ wreq' = [wreq EXCEPT
                              !.pc = IF wreq.sub.status \in {"active", "trialing"}
                                     THEN "plan" ELSE "audit"]
           ELSE /\ UNCHANGED subscriptions
                /\ wreq' = [Answered(500) EXCEPT
                              !.once = IF wreq.delivered = 0 THEN HookView ELSE @]
    /\ UNCHANGED tenants
    /\ UNCHANGED hookFrame

\* if (['active', 'trialing'].includes(status)) db.update(tenants).set({ plan })
HookPlan ==
    /\ wreq.pc = "plan"
    /\ tenants' = [t \in DOMAIN tenants |->
                      IF t = wreq.sub.tenantId
                      THEN [tenants[t] EXCEPT !.plan = CachedPlan(wreq.existing, wreq.sub)]
                      ELSE tenants[t]]
    /\ wreq' = [wreq EXCEPT !.pc = "audit"]
    /\ UNCHANGED subscriptions
    /\ UNCHANGED hookFrame

\* logAudit inserts into audit_logs; the webhook answers { received: true }
HookAudit ==
    /\ wreq.pc = "audit"
    /\ wreq' = [Answered(200) EXCEPT
                  !.audit = @ + 1,
                  !.once = IF wreq.delivered = 0 THEN HookView ELSE @]
    /\ UNCHANGED <<subscriptions, tenants>>
    /\ UNCHANGED hookFrame

InitHook ==
    /\ clock = 0
    /\ RLQuiet
    /\ AuthQuiet
    /\ env = ProdEnv
    /\ memberships = {}
    /\ treq = << >>
    /\ pw = << >>
    /\ pipe = << >>
    /\ orders = << >>
    /\ oreq = << >>
    /\ \E plan \in {"free", "pro"} :
          tenants = [t \in HookTenants |->
                        [id |-> t, plan |-> IF t = <<"t", "1">> THEN plan ELSE "pro"]]
    /\ subscriptions \in {{RowOfTenant2}, {RowOfTenant2, CanceledRow}}
    /\ \E sub \in StripeSubs, type \in HookTypes :
          wreq = [sub |-> sub, type |-> type, pc |-> "idle", existing |-> NoRow,
                  delivered |-> 0, answer |-> 0, audit |-> 0, once |-> NoRow]

NextHook ==
    \/ HookDeliver
    \/ HookFind
    \/ HookUpsert
    \/ HookPlan
    \/ HookAudit

SpecHook == InitHook /\ [][NextHook]_vars

\* ======================================================================== /auth claims
IssuedFor(purpose, userId, raw) ==
    \E i \in issued : i.purpose = purpose /\ i.userId = userId /\ i.secret = raw

\* the attempt passed the endpoint's secret check
Succeeded == resp.outcome \in {"verified", "password_changed"}

\* C8 (as stated): a verification attempt that starts after the same token's
\* first successful verification fails, that is, it is answered with an error
\* status.
C8_LaterAttemptFails == resp.late => resp.status >= 400

\* C8 (amended): a verification attempt that starts after the same token's
\* first successful verification never succeeds again; /auth/reset answers it
\* 400, /auth/verify-email answers it 200 "already verified"; neither gets
\* as far as a write to the store.
C8_LaterAttemptNeverSucceeds ==
    /\ \A p \in Reqs : ~proc[p].late
    /\ resp.late =>
        /\ ~Succeeded
        /\ resp.op = "reset" => resp.status = 400
        /\ resp.op = "verify" => resp.status = 200 /\ resp.outcome = "already_verified"

\* a consumed reset token is presented again and refused
C8_Witness ==
    /\ resp.late
    /\ resp.op = "reset"
    /\ resp.status = 400
    /\ IssuedFor("reset", resp.userId, resp.raw)

\* C9: of the requests that submit the same valid single-use token, at most
\* one succeeds, also when they run concurrently.
C9_AtMostOneSuccessPerToken == reused = {}

\* C10: no verification at /auth/verify-email succeeds, or passes the secret
\* check, with a token issued for password reset, and none at /auth/reset with
\* a token issued for email verification.
C10_CrossPurposeNeverAccepted ==
    /\ resp.outcome = "verified" => ~IssuedFor("reset", resp.userId, resp.raw)
    /\ resp.outcome = "password_changed" => ~IssuedFor("verify", resp.userId, resp.raw)
    /\ \A p \in Reqs :
        /\ proc[p].pc = "verify_update" =>
                ~IssuedFor("reset", proc[p].userId, proc[p].raw)
        /\ proc[p].pc \in {"reset_update", "reset_delete"} =>
                ~IssuedFor("verify", proc[p].userId, proc[p].raw)

\* both tokens of a user are outstanding and unexpired, and the reset token
\* has just been refused by /auth/verify-email
C10_Witness ==
    /\ resp.op = "verify"
    /\ resp.status = 400
    /\ IssuedFor("reset", resp.userId, resp.raw)
    /\ resp.userId \in DOMAIN users
    /\ users[resp.userId].resetToken = hashToken(resp.raw)
    /\ ~Expired(users[resp.userId].resetTokenExpiresAt, clock)
    /\ users[resp.userId].emailVerifyToken # Null
    /\ ~Expired(users[resp.userId].emailVerifyExpiresAt, clock)
    /\ ~users[resp.userId].emailVerified

\* the links of one purpose sent to one user that would pass the endpoint's
\* checks now
ValidNow(purpose, userId) ==
    {i \in issued :
        /\ i.purpose = purpose /\ i.userId = userId
        /\ IF purpose = "reset"
           THEN /\ verifyResetToken(i.secret, users[userId].resetToken)
                /\ ~Expired(users[userId].resetTokenExpiresAt, clock)
           ELSE /\ ~users[userId].emailVerified
                /\ verifyResetToken(i.secret, users[userId].emailVerifyToken)
                /\ ~Expired(users[userId].emailVerifyExpiresAt, clock)}

\* C11: a verification attempt that starts after a later link of the same
\* purpose was sent to the same user never passes the endpoint's checks, and
\* at any time at most one link per user and purpose would pass them.
C11_ReissueInvalidatesPrevious ==
    /\ \A p \in Reqs : ~proc[p].stale
    /\ resp.stale => ~Succeeded
    /\ \A u \in DOMAIN users :
        /\ Cardinality(ValidNow("reset", u)) <= 1
        /\ Cardinality(ValidNow("verify", u)) <= 1

\* after a resend the link sent at registration is refused while the newer
\* link is still valid
C11_Witness ==
    /\ resp.stale
    /\ resp.op = "verify"
    /\ resp.status = 400
    /\ resp.outcome = "invalid"
    /\ ValidNow("verify", resp.userId) # {}

\* the same for a second /auth/forgot
C11_WitnessForgot ==
    /\ resp.stale
    /\ resp.op = "reset"
    /\ resp.status = 400
    /\ ValidNow("reset", resp.userId) # {}

\* C12: when a verification or reset attempt has been refused because the
\* slot's expiry has passed, the stored hash and expiry of that purpose are
\* cleared.
C12_ExpiredAttemptClearsSlot ==
    resp.outcome = "expired" =>
        IF resp.op = "reset"
        THEN /\ users[resp.userId].resetToken = Null
             /\ users[resp.userId].resetTokenExpiresAt = Undef
        ELSE /\ users[resp.userId].emailVerifyToken = Null
             /\ users[resp.userId].emailVerifyExpiresAt = Undef

\* the slot of the purpose is filled and its expiry time has passed
SlotExpired(op, userId) ==
    /\ userId \in DOMAIN users
    /\ IF op = "reset"
       THEN /\ users[userId].resetToken # Null
            /\ users[userId].resetTokenExpiresAt # Undef
            /\ users[userId].resetTokenExpiresAt < clock
       ELSE /\ users[userId].emailVerifyToken # Null
            /\ users[userId].emailVerifyExpiresAt # Undef
            /\ users[userId].emailVerifyExpiresAt < clock

\* this step is the arrival of a request of the endpoint for the user: it is
\* answered at once or goes on to its write
AttemptStep(op, userId) ==
    \/ /\ resp'.op = op
       /\ resp'.userId = userId
       /\ proc' = proc
    \/ \E p \in Reqs :
        /\ proc[p].pc = "idle"
        /\ proc'[p].pc # "idle"
        /\ proc'[p].op = op
        /\ proc'[p].userId = userId

RefusedAsExpired ==
    /\ resp'.outcome = "expired"
    /\ resp'.status = 400
    /\ users' = users
    /\ sessions' = sessions

C14_ExpiredSessionRejectedAndRemoved ==
    /\ [][\A p \in Reqs :
            /\ /\ proc[p].pc = "idle"
               /\ proc'[p].pc \in {"session_extend", "session_delete"}
               /\ proc'[p].seen < clock
               => proc'[p].pc = "session_delete"
            /\ /\ proc[p].pc = "session_delete"
               /\ proc'[p] # proc[p]
               => resp'.status = 401 /\ resp'.outcome = "session_expired"]_vars
    /\ [](resp.outcome = "session_expired" =>
            /\ resp.status = 401
            /\ \A x \in sessions : x.tokenHash # hashToken(resp.raw))

\* a cookie that the server had set was presented after its record's expiry
\* time and has just been refused
C14_Witness ==
    /\ resp.outcome = "session_expired"
    /\ resp.status = 401
    /\ IssuedFor("session", resp.userId, resp.raw)
    /\ clock > SessionTtlSec

\* the step is the write of validateSession for request p
ExtendStep(p) ==
    /\ proc[p].pc = "session_extend"
    /\ proc'[p].pc # "session_extend"

\* no session row's expiry time goes down in the step
NoExpiryDecrease ==
    \A x \in sessions, y \in sessions' :
        x.tokenHash = y.tokenHash => y.expiresAt >= x.expiresAt

\* the write sets the cookie's row to (time of the read) + TTL, leaves every
\* other row alone and the request goes on as the row's user
ExtendsToNowPlusTtl(p) ==
    /\ \A x \in sessions :
        IF x.tokenHash = hashToken(proc[p].raw)
        THEN /\ [x EXCEPT !.expiresAt = proc[p].now + SESSION_TTL_DAYS * 86400]
                    \in sessions'
             /\ proc[p].now <= clock
             /\ proc'[p].userId = x.userId
             /\ proc'[p].pc \in {"me_find", "resend_find"}
        ELSE x \in sessions'
    /\ Cardinality(sessions') = Cardinality(sessions)

\* C15 (as stated): a validation of an unexpired session sets the row's
\* expiresAt to now + 14 days and authenticates as the row's user, and no
\* row's expiresAt ever decreases.
C15_ExtendsAndNeverDecreases ==
    [][/\ \A p \in Reqs : ExtendStep(p) => ExtendsToNowPlusTtl(p)
       /\ NoExpiryDecrease]_vars

\* C15 (amended): the same, where the expiry time does not decrease in a
\* validation during which no other request has rewritten the row (the row
\* still holds the expiry time that the validation read).
C15_ExtendsAndNeverDecreasesAlone ==
    [][\A p \in Reqs : ExtendStep(p) =>
          /\ ExtendsToNowPlusTtl(p)
          /\ (\A x \in sessions : x.tokenHash = hashToken(proc[p].raw)
                                    => x.expiresAt = proc[p].seen)
                => NoExpiryDecrease]_vars

\* a session created at time 0 has been extended by a later validation and the
\* request is going on as the session's user
C15_Witness ==
    \E p \in Reqs, x \in sessions :
        /\ proc[p].pc = "resend_find"
        /\ x.tokenHash = hashToken(proc[p].raw)
        /\ x.userId = proc[p].userId
        /\ x.expiresAt > SessionTtlSec

\* the session row of a cookie is in the store and has not expired
RecordLive(secret) ==
    \E x \in sessions : x.tokenHash = hashToken(secret) /\ ~(x.expiresAt < clock)

\* C16: as long as the server-side record of a cookie that was set is kept
\* alive by validations less than the TTL apart, the cookie itself has not
\* reached the end of its Max-Age in the browser.
C16_CookieLivesWhileRecordLives ==
    \A j \in jar : RecordLive(j.secret) => clock <= j.until

\* C17: a logout removes exactly the session rows whose tokenHash is the hash
\* of the presented cookie; every other row, of the same user or of another,
\* is in the store unchanged afterwards.
C17_LogoutDeletesOnlyPresentedSession ==
    [][resp'.op = "logout" =>
          /\ resp'.status = 200
          /\ sessions' = {x \in sessions : x.tokenHash # hashToken(resp'.raw)}]_vars

\* a cookie that the server had set was logged out, its row is gone and
\* another session of the same user is still stored and unexpired
C17_Witness ==
    /\ resp.op = "logout"
    /\ \E j \in jar :
        /\ j.secret = resp.raw
        /\ \A x \in sessions : x.tokenHash # hashToken(j.secret)
        /\ \E k \in jar :
            /\ k.userId = j.userId
            /\ k.secret # j.secret
            /\ RecordLive(k.secret)

\* C18: when a password reset answers success, the store holds no session row
\* of that user and the rows of every other user are as they were; a cookie
\* whose row has been removed never has a row again, so the cookies set for
\* the user before the reset fail validation from then on.
C18_ResetRemovesAllSessionsOfUser ==
    [][/\ resp'.outcome = "password_changed" =>
            sessions' = {x \in sessions : x.userId # resp'.userId}
       /\ \A j \in jar :
            (\A x \in sessions : x.tokenHash # hashToken(j.secret))
                => (\A x \in sessions' : x.tokenHash # hashToken(j.secret))]_vars

\* a reset has just succeeded for a user who had been given a session cookie,
\* while another user's session is still stored
C18_Witness ==
    /\ resp.outcome = "password_changed"
    /\ \E j \in jar : j.userId = resp.userId
    /\ \A x \in sessions : x.userId # resp.userId
    /\ \E k \in jar : k.userId # resp.userId /\ RecordLive(k.secret)

\* a password reset of the user has written the new password and has not yet
\* deleted the user's sessions
ResetCompleting(userId) ==
    \E p \in Reqs : proc[p].pc = "reset_delete" /\ proc[p].userId = userId

\* C19: once a password reset has completed, the store holds no session of
\* that user that was created by a login verified against a password other
\* than the user's current one.
C19_NoSessionFromOldPassword ==
    \A j \in jar :
        /\ \E x \in sessions : x.tokenHash = hashToken(j.secret)
        /\ ~ResetCompleting(j.userId)
        => j.login = users[j.userId].passwordHash

\* every secret the server can draw, and the made-up one a client can send
RawSecrets == {generateSecureToken(n) : n \in 1..MaxSecrets} \cup {Bogus}

\* the stored value is the SHA-256 digest of a secret and is not itself a secret
DigestOnly(stored) ==
    /\ stored \notin RawSecrets
    /\ Len(stored) > 0
    /\ stored[1] = "sha256"
    /\ \E r \in RawSecrets : stored = <<"sha256">> \o r

\* C20: in every reachable state sessions.tokenHash, users.resetToken and
\* users.emailVerifyToken hold the digest of a secret or nothing, never a raw
\* session, reset or verification secret.
C20_StoreHoldsOnlyHashes ==
    /\ \A x \in sessions : DigestOnly(x.tokenHash)
    /\ \A u \in DOMAIN users :
        /\ users[u].resetToken # Null => DigestOnly(users[u].resetToken)
        /\ users[u].emailVerifyToken # Null => DigestOnly(users[u].emailVerifyToken)

\* one user has a session row, a filled reset slot and a filled verification
\* slot at the same time
C20_Witness ==
    \E u \in DOMAIN users :
        /\ users[u].resetToken # Null
        /\ users[u].emailVerifyToken # Null
        /\ \E x \in sessions : x.userId = u

\* C26: when two requests validate the same unexpired session at the same
\* time, each of them goes on authenticated, each write leaves the row in the
\* store with expiresAt = (the writer's read time) + TTL, and that is never
\* earlier than the value the writer had read, which for both is the value
\* before them.
C26_ConcurrentValidationsBothExtend ==
    [][\A p \in Reqs : ExtendStep(p) =>
          /\ proc'[p].pc \in {"me_find", "resend_find"}
          /\ \A x \in sessions : x.tokenHash = hashToken(proc[p].raw) =>
                \E y \in sessions' :
                    /\ y.tokenHash = x.tokenHash
                    /\ y.userId = proc'[p].userId
                    /\ y.expiresAt = proc[p].now + SESSION_TTL_DAYS * 86400
                    /\ y.expiresAt >= proc[p].seen
                    /\ \A q \in Reqs :
                        /\ proc[q].pc = "session_extend"
                        /\ proc[q].raw = proc[p].raw
                        /\ proc[q].seen = proc[p].seen
                        => y.expiresAt >= proc[q].seen]_vars

\* two validations of one cookie read the same row; one has written a later
\* expiry time and goes on authenticated while the other has yet to write
C26_Witness ==
    \E p, q \in Reqs, x \in sessions :
        /\ p # q
        /\ proc[p].pc = "resend_find"
        /\ proc[q].pc = "session_extend"
        /\ proc[p].raw = proc[q].raw
        /\ proc[p].seen = proc[q].seen
        /\ x.tokenHash = hashToken(proc[q].raw)
        /\ x.expiresAt > proc[q].seen

\* the instants of the list stored in KV together with the instant of call r
KVStamps(r) ==
    {kv[StorageKey(opts)][i] : i \in 1..Len(kv[StorageKey(opts)])} \cup {req[r].now}

\* call r has passed checkKV's limit test on the list it read and is about to
\* be admitted, while the stored list already holds max admitted requests, all
\* of them and r less than one window apart
KVOverAdmission ==
    \E r \in Reqs :
        /\ req[r].pc = "kv_put"
        /\ StorageKey(opts) \in DOMAIN kv
        /\ Len(kv[StorageKey(opts)]) >= opts.max
        /\ \A a, b \in KVStamps(r) : a - b < opts.windowMs

\* C27: the Durable Object's counter accounts for every request it admitted in
\* its window, whatever the interleaving of the calls, so it admits at most
\* max; in the KV backend more than max requests are admitted within one
\* window only when calls for the key overlap between kv.get and kv.put.
C27_OnlyKVInterleaves ==
    /\ StorageKey(opts) \in DOMAIN counts =>
        /\ counts[StorageKey(opts)].count = doAdm
        /\ doAdm <= opts.max
    /\ KVOverAdmission => raced /\ UsesKV

\* no call has failed, and the KV backend is admitting more than max requests
\* within one window
C27_Witness == KVOverAdmission /\ ~faulty /\ opts.max > 1

\* C21: every raw secret that has left a handler went out in the session
\* cookie or in a mailed link, never in a log line (the JSON bodies carry no
\* secret in any handler).
C21_SecretsLeaveOnlyByCookieOrMail ==
    \A i \in issued : i.via \in {"cookie", "email"}

\* C22: the role and plan that a handler reads from the request context were
\* read from the store after the request started: they are never older than
\* the values stored when it started, and when nothing was written since they
\* are the stored values.
C22_ContextIsFresh ==
    \A r \in Reqs : treq[r].pc = "handler" =>
        /\ treq[r].ctx.planVer >= treq[r].startPlanVer
        /\ treq[r].ctx.roleVer >= treq[r].startRoleVer
        /\ tenants[Slug].ver = treq[r].startPlanVer
               => treq[r].ctx.plan = tenants[Slug].plan
        /\ \A x \in memberships :
               x.ver = treq[r].startRoleVer => treq[r].ctx.role = x.role

\* a request that started after the plan and the role had been changed is in
\* its handler with the new plan and role
C22_Witness ==
    \E r \in Reqs, x \in memberships :
        /\ treq[r].pc = "handler"
        /\ treq[r].startPlanVer > 0
        /\ treq[r].startRoleVer > 0
        /\ treq[r].ctx.plan = tenants[Slug].plan
        /\ treq[r].ctx.plan # "free"
        /\ treq[r].ctx.role = x.role
        /\ x.role # "staff"

\* ---- C23
\* A login refused for an unknown email and a login refused for a known
\* email get the same answer (401, the one generic error body), and in both
\* the handler ran the password key derivation.
FailedLogin == resp.op = "login" /\ resp.status = 401

C23_FailedLoginsAlikeAndDerive ==
    FailedLogin => resp.outcome = "bad_credentials" /\ resp.kdf

\* C23, for accounts whose stored hash verifyPassword derives against: every
\* refused login gets the same 401 answer; the derivation ran when the email
\* is unknown and when the account's hash is a pbkdf2-sha256 string with at
\* least MinIterations iterations (what register and reset write).
C23_FailedLoginsAlikeAndDeriveForDerivedHashes ==
    FailedLogin =>
        /\ resp.outcome = "bad_credentials"
        /\ ~resp.known => resp.kdf
        /\ (resp.known /\ Derives(users[resp.userId].passwordHash)) => resp.kdf

\* both kinds of refused login have happened: here the unknown email
C23_Witness == FailedLogin /\ ~resp.known /\ resp.kdf

\* and here the wrong password for an account that register created
C23_WitnessKnown ==
    /\ FailedLogin
    /\ resp.known
    /\ Derives(users[resp.userId].passwordHash)
    /\ resp.kdf

\* ---- C28
\* In createSession a failed purge of expired sessions does not stop the
\* request: it goes on to the insert, and unless the insert fails too it is
\* answered with success and a cookie for a stored session.  A failed insert
\* is answered 500 and sets no cookie.
InsertFailureStep ==
    \E p \in Reqs : proc[p].pc = "session_insert" /\ resp'.failed = "insert"

C28_CleanupFailureToleratedInsertFailureSurfaces ==
    /\ [][InsertFailureStep =>
            resp'.status = 500 /\ jar' = jar /\ issued' = issued]_vars
    /\ [](resp.failed = "cleanup" =>
            /\ resp.status \in {200, 201}
            /\ \E j \in jar :
                    /\ j.userId = resp.userId
                    /\ \E x \in sessions : x.tokenHash = hashToken(j.secret))
    /\ [](\A p \in Reqs :
            proc[p].failed = "cleanup" => proc[p].pc = "session_insert")

\* a request whose purge failed has been answered with a session
C28_Witness == resp.failed = "cleanup" /\ resp.status = 200

\* a request whose insert failed has been answered
C28_WitnessInsert == resp.failed = "insert" /\ resp.status = 500 /\ jar = {}

\* ---- C24
\* A password verifies against its own hashPassword output, and no other
\* password does.
HashedByThisBuild ==
    /\ pw.pc = "verified"
    /\ pw.stored = hashPasswordWith(pw.p, pw.salt, PBKDF2_ITERATIONS)

C24_VerifiesExactlyTheHashedPassword ==
    HashedByThisBuild => (pw.ok <=> pw.q = pw.p)

\* a different password was verified against the hash and refused
C24_Witness == HashedByThisBuild /\ pw.q # pw.p /\ ~pw.ok

\* the hashed password was verified and accepted
C24_WitnessSame == HashedByThisBuild /\ pw.q = pw.p /\ pw.ok

\* ---- C25
\* A hash stored with iteration count N still verifies the correct password
\* after the configured count was raised to M > N.
VerifiedAfterRaise ==
    /\ pw.pc = "verified"
    /\ pw.raised
    /\ pw.configured > pw.stored[2]
    /\ pw.q = pw.p

C25_OldCountStillVerifies == VerifiedAfterRaise => pw.ok

\* C25, for counts verifyPassword accepts: a hash stored with iteration count
\* N >= MinIterations still verifies the correct password after the
\* configured count was raised to M > N.
C25_OldCountAboveFloorStillVerifies ==
    (VerifiedAfterRaise /\ pw.stored[2] >= MinIterations) => pw.ok

\* a hash of the previous count was verified under the raised count
C25_Witness ==
    /\ VerifiedAfterRaise
    /\ pw.stored[2] >= MinIterations
    /\ pw.stored[2] < PBKDF2_ITERATIONS
    /\ pw.ok

\* ---- C29
\* Whatever runs for a request, the rate limiter ran for it first: the first
\* middleware of every request is the rate limiter, so on authenticated
\* routes the limiter has decided before requireAuth validates the session.
C29_RateLimiterRunsFirst ==
    \A r \in Reqs : pipe[r].ran # << >> => pipe[r].ran[1] = "rateLimit"

\* ---- C30
\* A body whose note is acceptable passes updateOrderStatusSchema exactly
\* when its status is one of pending, paid, shipped, delivered, cancelled,
\* refunded.
C30_SchemaAcceptsTheSixStatuses ==
    (oreq.last.body # NoBody /\ oreq.last.body.note # "long") =>
        (oreq.last.parsed <=> oreq.last.body.status \in OrderStatuses)

\* ---- C31
\* With the calls for a key processed one at a time and no KV failure, the
\* sliding window never admits more than max requests within one window
\* (t, t + windowMs]: whenever it has admitted max + 1 requests, the first
\* and the last of them are at least windowMs apart.
Serial == ~raced /\ ~faulty

C31_SerialKVAdmitsAtMostMaxPerWindow ==
    (Serial /\ Len(kvLog) = opts.max + 1) =>
        kvLog[opts.max + 1] - kvLog[1] >= opts.windowMs

\* the sliding window has admitted max + 1 requests, one at a time
C31_Witness == Serial /\ UsesKV /\ Len(kvLog) = opts.max + 1

\* ---- C32
\* A rejection leaves the limiter's state as it was: the step in which the
\* Durable Object or checkKV rejects a call changes neither the counts map
\* nor the stored timestamp list.
RejectionStep == last'.via \in {"do", "kv"} /\ ~last'.allowed

C32_RejectionChangesNoLimiterState ==
    [][RejectionStep => counts' = counts /\ kv' = kv]_vars

\* the Durable Object has just rejected a call
C32_Witness == last.via = "do" /\ ~last.allowed

\* checkKV has just rejected a call
C32_WitnessKV == last.via = "kv" /\ ~last.allowed

\* ---- C33
\* Every entry of the Durable Object's counts map has 1 <= count <= max, and
\* the remaining value reported with an admission is max - count >= 0, count
\* being the entry's count after the call.
C33_CountWithinBounds ==
    /\ \A k \in DOMAIN counts :
            counts[k].count >= 1 /\ counts[k].count <= opts.max
    /\ (last.via = "do" /\ last.allowed) =>
            /\ last.remaining = opts.max - counts[StorageKey(opts)].count
            /\ last.remaining >= 0

\* the Durable Object has admitted the call that filled the window
C33_Witness ==
    /\ last.via = "do"
    /\ last.allowed
    /\ ~last.newWindow
    /\ counts[StorageKey(opts)].count = opts.max

\* ---- C34
\* A request the limiter rejects is answered 429 and its handler never runs:
\* no request answered 429 has passed any stage but the limiter, and every
\* step in which a login or reset handler starts (the only steps that verify
\* a password, and the only way to the steps that create a session or change
\* a password) belongs to a request the limiter has admitted.
HandlerStarts ==
    \/ \E p \in Reqs : proc[p].pc = "idle" /\ proc'[p].pc # "idle"
    \/ proc' = proc /\ resp' # resp

AdmittedHandOver ==
    \E r \in Reqs :
        /\ pipe[r].status = 0
        /\ pipe[r].ran = <<"rateLimit">>
        /\ pipe'[r].ran = <<"rateLimit", "handler">>

C34_RejectedRequestNeverReachesHandler ==
    /\ [](\A r \in Reqs : pipe[r].status = 429 => pipe[r].ran = <<"rateLimit">>)
    /\ [][HandlerStarts => AdmittedHandOver]_vars
    /\ [][(sessions' # sessions \/ users' # users) =>
            \E p \in Reqs : proc[p].pc # "idle" /\ proc'[p] # proc[p]]_vars

\* a request was answered 429 while nothing has reached a handler yet
C34_Witness ==
    /\ \E r \in Reqs : pipe[r].status = 429
    /\ last.via = "do" /\ ~last.allowed
    /\ sessions = {}

\* ---- C35
\* /auth/forgot answers the same (200, the one generic message) whether or
\* not the email belongs to a user.  For an unknown email the store is left
\* as it was; for a known one nothing but that user's reset slot changes.
ForgotAnswered == resp'.op = "forgot"

OnlyResetSlotDiffers(userId) ==
    /\ DOMAIN users' = DOMAIN users
    /\ \A u \in DOMAIN users :
            IF u = userId
            THEN users'[u] =
                    [users[u] EXCEPT
                        !.resetToken = users'[u].resetToken,
                        !.resetTokenExpiresAt = users'[u].resetTokenExpiresAt]
            ELSE users'[u] = users[u]

C35_ForgotAnswersAlike ==
    /\ [](resp.op = "forgot" => resp.status = 200 /\ resp.outcome = "generic")
    /\ [][ForgotAnswered =>
            /\ sessions' = sessions
            /\ OnlyResetSlotDiffers(resp'.userId)
            /\ resp'.userId = NoUser => users' = users]_vars

\* forgot was answered for an email that belongs to nobody
C35_Witness == resp.op = "forgot" /\ resp.userId = NoUser

\* forgot was answered for a user, whose reset slot is now filled
C35_WitnessKnown ==
    /\ resp.op = "forgot"
    /\ resp.userId \in DOMAIN users
    /\ users[resp.userId].resetToken = hashToken(resp.raw)

\* ---- C36
\* The step in which createSession sets a cookie leaves exactly one session
\* record whose tokenHash is the hash of the cookie value: the record just
\* inserted, owned by the user the session was created for and not expired.
\* A validation that accepts a cookie authenticates the request as the user
\* that cookie was set for.
CookieSet == {i \in issued' \ issued : i.purpose = "session"}

ValidatesOnlyNewRecord(i) ==
    LET found == {x \in sessions' : x.tokenHash = hashToken(i.secret)}
    IN  /\ Cardinality(found) = 1
        /\ \A x \in found :
                /\ x \notin sessions
                /\ x.userId = i.userId
                /\ ~Expired(x.expiresAt, clock')

Accepted(p) == proc[p].pc \in {"session_extend", "me_find"}

C36_CookieValidatesAsItsUser ==
    /\ [][\A i \in CookieSet : ValidatesOnlyNewRecord(i)]_vars
    /\ [](\A p \in Reqs : Accepted(p) =>
            \E i \in issued :
                /\ i.purpose = "session"
                /\ i.secret = proc[p].raw
                /\ i.userId = proc[p].userId)

\* a request carrying a cookie that createSession set has been accepted while
\* another user holds a session too
C36_Witness ==
    /\ \E p \in Reqs : Accepted(p) /\ proc[p].userId = <<"u", "a">>
    /\ \E x \in sessions : x.userId = <<"u", "b">>
\* ------------------------------------------------------------ C37
\* the step answered a verify-email or reset attempt with the rejection for
\* an unknown owner id, an empty slot or a wrong secret
RejectedAttempt ==
    /\ resp'.op \in {"verify", "reset"}
    /\ resp'.status = 400
    /\ resp'.outcome \in {"invalid", "no_request"}

\* C37: a verification or reset attempt rejected for an unknown owner id, an
\* empty slot or a wrong secret changes no user row (password hash, both
\* slots, emailVerified) and no session, so every link that would pass the
\* checks before it would still pass them after it; and a row's password hash
\* or emailVerified changes only for an attempt that presented a secret sent
\* to that user for that purpose.
C37_RejectedAttemptChangesNothing ==
    /\ [][RejectedAttempt =>
            /\ users' = users
            /\ sessions' = sessions
            /\ \A u \in DOMAIN users, purpose \in {"reset", "verify"} :
                  ValidNow(purpose, u)' = ValidNow(purpose, u)]_vars
    /\ [][\A u \in DOMAIN users :
            /\ users'[u].passwordHash # users[u].passwordHash =>
                  \E p \in Reqs : /\ proc[p].op = "reset" /\ proc[p].userId = u
                                  /\ IssuedFor("reset", u, proc[p].raw)
            /\ users'[u].emailVerified # users[u].emailVerified =>
                  \E p \in Reqs : /\ proc[p].op = "verify" /\ proc[p].userId = u
                                  /\ IssuedFor("verify", u, proc[p].raw)]_vars

\* a wrong secret was rejected while a link of the same user was valid
C37_Witness ==
    /\ resp.op = "reset" /\ resp.status = 400 /\ resp.outcome = "invalid"
    /\ resp.userId \in DOMAIN users
    /\ resp.raw = Bogus
    /\ ValidNow("reset", resp.userId) # {}

\* an unknown owner id was rejected by verify-email while a valid
\* verification link was outstanding
C37_WitnessUnknown ==
    /\ resp.op = "verify" /\ resp.status = 400 /\ resp.outcome = "invalid"
    /\ resp.userId \notin DOMAIN users
    /\ \E u \in DOMAIN users : ValidNow("verify", u) # {}

\* the reset slot of the addressed user was empty while that user's
\* verification link was valid
C37_WitnessEmptySlot ==
    /\ resp.op = "reset" /\ resp.status = 400 /\ resp.outcome = "invalid"
    /\ resp.userId \in DOMAIN users
    /\ users[resp.userId].resetToken = Null
    /\ ValidNow("verify", resp.userId) # {}


C38_VerifiedStaysVerified ==
    [][\A u \in DOMAIN users :
          users[u].emailVerified => users'[u].emailVerified]_vars

\* ------------------------------------------------------------ C39
\* token hashes of the session cookies that were set and whose record is gone
DeletedHashes ==
    {hashToken(i.secret) : i \in {j \in issued : j.purpose = "session"}}
        \ {x.tokenHash : x \in sessions}

\* C39: once a session record has been deleted, no later step of any request,
\* in particular not the expiry update of a validation that read the record
\* before a logout or password reset deleted it, makes a record with that
\* tokenHash exist again.
C39_DeletedSessionNeverRecreated ==
    [][\A h \in DeletedHashes : SessionByHash(h)' = {}]_vars

\* a validation read the session, a logout or reset deleted it, and the
\* validation's expiry update has just run
C39_Witness ==
    \E p \in Reqs :
        /\ proc[p].pc = "me_find"
        /\ resp = NoResp
        /\ \A q \in Reqs \ {p} : ~Busy(q)
        /\ hashToken(proc[p].raw) \in DeletedHashes

\* ------------------------------------------------------------ C40
\* C40: after the same customer.subscription.created / updated event has
\* been processed a second time, the tenant's subscriptions row (the whole
\* table) and tenants.plan are what they were after it was processed once.
C40_SecondDeliveryChangesNothing ==
    (wreq.pc = "idle" /\ wreq.delivered >= 2) => HookView = wreq.once

\* the first delivery inserted the row and wrote the plan, the second found
\* the row and ran the update
C40_Witness ==
    /\ wreq.pc = "idle" /\ wreq.delivered = 2 /\ wreq.answer = 200
    /\ wreq.audit = 2
    /\ wreq.sub.status = "active"
    /\ \E x \in subscriptions : x.tenantId = wreq.sub.tenantId /\ x.id = randomUUID(1)

\* the row existed before the event, and the event carried no customer
C40_WitnessUpdate ==
    /\ wreq.pc = "idle" /\ wreq.delivered = 2 /\ wreq.answer = 200
    /\ wreq.sub.customer = Null
    /\ \E x \in subscriptions : x.id = CanceledRow.id /\ x.stripeCustomerId = <<"cus", "0">>
                                /\ x.status = wreq.sub.status

\* both deliveries failed on the UNIQUE column stripe_subscription_id
C40_WitnessConflict ==
    /\ wreq.pc = "idle" /\ wreq.delivered = 2 /\ wreq.answer = 500

====
